---- MODULE Spec2Model ----
(***************************************************************************)
(* Model of the Doctor documentation injector (src/doctor).                *)
(*                                                                         *)
(* Text is modelled as a sequence of one-character strings, a source file  *)
(* as a sequence of lines, and an ElementTree element as a record.         *)
(*                                                                         *)
(* Specifications:                                                         *)
(*   Spec      Doctor._overwrite_one on one source file, tree-based path:  *)
(*             line_elements, line_expand_tabs, line_star_slash and        *)
(*             comment_blocks, then the per-element write to the temporary *)
(*             file and the copy over the original.                        *)
(*   SpecCan   markdown_tree.can_contain on one parent and one child.      *)
(*   SpecCache DocGetter.load and load_file, with Cache.read, on           *)
(*             documentation files of a few lines.                         *)
(*   SpecTree  DocGetter.read, lift_singles and lift_trees on the tree of  *)
(*             one comment, against a cache of two fragments.              *)
(*   FairSpecTree  SpecTree with the loop of DocGetter.read scheduled.     *)
(*   SpecGet   DocGetter.get_content on one uri and one source path.       *)
(*   SpecAt    OutputTree._at_command_hanging on one output line.          *)
(*   SpecContinue  the continue pattern of the parser on one text.         *)
(*   SpecLine  Spec on files of one short line, alone or in a comment.     *)
(*   SpecRender  TreeRenderer on the spans of one paragraph.               *)
(*   SpecOut   OutputTree.write_lines on one comment of paragraphs, and a  *)
(*             second run of the pipeline on the file that it has written. *)
(*   SpecAll   Doctor.overwrite_all and main on the files of a job.        *)
(*   SpecShuffle  CommentTree._shuffle_comment on one comment block.       *)
(*   SpecLift  one pass of the loop of lift_trees on labelled elements.    *)
(*   SpecSplit  split_elements and the loop of resolve_splitters.          *)
(*   FairSpecSplit  SpecSplit with the loop scheduled.                     *)
(*   SpecChain  DocGetter.read on a chain of references across files.      *)
(*   SpecExtract  a job in extraction mode and then one in injection mode  *)
(*             on the files that the first has written.                    *)
(***************************************************************************)
EXTENDS Integers, Sequences, FiniteSets, TLC

VARIABLES
    file,           \* the lines of the source file as opened by read_lines
    disk,           \* the content of report.path on disk
    dryRun,         \* Doctor.dryRun
    extract,        \* report.extract, from Doctor.extractMode
    pc,             \* position in Doctor._overwrite_one
    lineNo,         \* line_elements: lineNumber
    lineElement,    \* line_star_slash: lineElement (NoElem for None)
    inComment,      \* line_star_slash: inComment
    commentElement, \* comment_blocks: commentElement (NoElem for None)
    elements,       \* what comment_blocks has yielded so far
    written,        \* how many of elements write_lines has handled
    temp,           \* the content of the NamedTemporaryFile
    tree,           \* the comment element that the tree stages work on
    library,        \* DocGetter._cachedFragments, parsed, by fragment name
    leaveMarkers,   \* lift_trees: leaveMarkers, from Job.markers
    docOuters,      \* DocGetter.read: what is left of the findall list
    count,          \* DocGetter.read: count
    parentElement,  \* can_contain: parentElement
    childElement,   \* can_contain: childElement
    contained,      \* what can_contain returned, or "raise"
    docFiles,       \* the documentation files on disk, by path
    cachedFragments,\* DocGetter._cachedFragments
    cachedFiles,    \* DocGetter._cachedFiles
    loads,          \* the paths that load_file has been called with, in order
    args,           \* the arguments of the function that a specification calls
    returned        \* what the function returned, or the error that it raised

fileVars == <<file, disk, dryRun, extract, lineNo, lineElement, inComment,
              commentElement, elements, written, temp>>
treeVars == <<tree, library, leaveMarkers, docOuters, count>>
canVars == <<parentElement, childElement, contained>>
cacheVars == <<docFiles, cachedFragments, cachedFiles, loads>>
callVars == <<args, returned>>

vars == <<pc, fileVars, treeVars, canVars, cacheVars, callVars>>

\* ------------------------------------------------------------------ bounds

MaxLines == 3
MaxDocLines == 3
MaxLoads == 3
MaxDepth == 3
MaxGets == 1

\* ------------------------------------------------------------------ text

TAB == "\t"
NL == "\n"
SP == " "

NoElem == [tag |-> "none"]
NoMatch == [matched |-> FALSE]

tabSize == 4

Spaces(n) == [i \in 1..n |-> SP]

Drop(s, n) == SubSeq(s, n + 1, Len(s))
Take(s, n) == SubSeq(s, 1, n)

IsSuffix(s, t) == Len(s) <= Len(t) /\ Drop(t, Len(t) - Len(s)) = s

\* The number of leading characters of s that are in the set cs.
RECURSIVE LeadingFrom(_, _, _)
LeadingFrom(s, cs, i) ==
    IF i <= Len(s) /\ s[i] \in cs THEN LeadingFrom(s, cs, i + 1) ELSE i - 1
Leading(s, cs) == LeadingFrom(s, cs, 1)

\* The number of trailing characters of s that are in the set cs.
RECURSIVE TrailingFrom(_, _, _)
TrailingFrom(s, cs, i) ==
    IF i >= 1 /\ s[i] \in cs THEN TrailingFrom(s, cs, i - 1) ELSE Len(s) - i
Trailing(s, cs) == TrailingFrom(s, cs, Len(s))

\* str.expandtabs(tabSize): a tab becomes the spaces up to the next tab stop,
\* the column restarting after an end-of-line character.
RECURSIVE ExpandFrom(_, _, _, _)
ExpandFrom(s, i, col, size) ==
    IF i > Len(s) THEN <<>>
    ELSE IF s[i] = TAB
    THEN LET incr == size - (col % size)
         IN  Spaces(incr) \o ExpandFrom(s, i + 1, col + incr, size)
    ELSE <<s[i]>> \o
         ExpandFrom(s, i + 1, IF s[i] \in {NL, "\r"} THEN 0 ELSE col + 1, size)

\* A mutant of expandtabs that keeps the text as it was read.
KeepTabs(text, size) == text

expandtabs(text, size) == ExpandFrom(text, 1, 0, size)

\* ------------------------------------------------------- the line analyser

WhiteSpace == {SP, TAB, NL, "\r"}

At(s, i) == IF i >= 1 /\ i <= Len(s) THEN s[i] ELSE "eof"

\* re '$': at the end of the string, or just before a newline that ends it.
AtDollar(s, i) == i > Len(s) \/ (i = Len(s) /\ s[i] = NL)

\* SlashStarsParser._commentStart, searched by CommentTree._match_start:
\*     ^(?P<indent>\s*)(?P<symbol>/\*\*)(?P<margin> ?)(?:$|(?=[^/]))
\* The indent takes all the leading white space; the margin takes a space when
\* what follows it is not a slash, and is given back otherwise.
commentStart(text) ==
    LET k == Leading(text, WhiteSpace)
        p == k + 4
    IN  IF ~(At(text, k + 1) = "/" /\ At(text, k + 2) = "*" /\ At(text, k + 3) = "*")
        THEN NoMatch
        ELSE IF At(text, p) = SP /\ (AtDollar(text, p + 1) \/ At(text, p + 1) # "/")
        THEN [matched |-> TRUE, indent |-> Take(text, k), symbol |-> <<"/", "*", "*">>,
              margin |-> <<SP>>, before |-> <<>>, after |-> Drop(text, p)]
        ELSE IF AtDollar(text, p) \/ At(text, p) # "/"
        THEN [matched |-> TRUE, indent |-> Take(text, k), symbol |-> <<"/", "*", "*">>,
              margin |-> <<>>, before |-> <<>>, after |-> Drop(text, p - 1)]
        ELSE NoMatch

\* The least index at which "*/" starts in text, from i on; 0 when there is none.
RECURSIVE StarSlashFrom(_, _)
StarSlashFrom(text, i) ==
    IF i + 1 > Len(text) THEN 0
    ELSE IF text[i] = "*" /\ text[i + 1] = "/" THEN i
    ELSE StarSlashFrom(text, i + 1)

\* A mutant of the finish search that never finds the comment end.
NeverFinish(text) == NoMatch

\* SlashStarsParser._commentFinish, searched by CommentTree._match_finish:
\*     (?P<indent>^[ \t]*)?(?P<symbol>\*/)
\* The match is at the first "*/"; the indent group takes part only when
\* nothing but blanks is before it. `before` is what _analyse_line leaves in
\* the line element, `after` what it puts in the tail of <margin>.
commentFinish(text) ==
    LET i == StarSlashFrom(text, 1)
        k == Leading(text, {SP, TAB})
    IN  IF i = 0 THEN NoMatch
        ELSE IF k = i - 1
        THEN [matched |-> TRUE, indent |-> Take(text, k), symbol |-> <<"*", "/">>,
              margin |-> <<>>, before |-> <<>>, after |-> Drop(text, i + 1)]
        ELSE [matched |-> TRUE, indent |-> <<>>, symbol |-> <<"*", "/">>,
              margin |-> <<>>, before |-> Take(text, i - 1), after |-> Drop(text, i + 1)]

\* A mutant of the continue pattern whose margin takes every space after the
\* leader.
WideMargin(text) ==
    LET k == Leading(text, {SP})
        n == Leading(Drop(text, k + 1), {SP})
    IN  IF At(text, k + 1) = "*" /\ At(text, k + 2) # "/"
        THEN [matched |-> TRUE, indent |-> Take(text, k), symbol |-> <<"*">>,
              margin |-> Spaces(n), before |-> <<>>, after |-> Drop(text, k + 1 + n)]
        ELSE IF At(text, k + 1) = "*" THEN NoMatch
        ELSE [matched |-> TRUE, indent |-> Take(text, k), symbol |-> <<>>,
              margin |-> <<>>, before |-> <<>>, after |-> Drop(text, k)]

\* SlashStarsParser._commentContinue, searched by CommentTree._match_continue:
\*     ^(?P<indent> *)(?:(?P<symbolEOL>\*)$|(?P<symbolMargin>\*)(?P<margin> )
\*         |(?P<symbolNonSlash>\*)(?=[^/])|(?P<EOL>)$|(?P<nonSymbol>)(?=[^* ]))
\* The alternatives are tried in order after all the leading spaces; with
\* fewer spaces taken the next character is a space and no alternative matches.
commentContinue(text) ==
    LET k == Leading(text, {SP})
        r == k + 1
        m(symbol, margin, cursor) ==
            [matched |-> TRUE, indent |-> Take(text, k), symbol |-> symbol,
             margin |-> margin, before |-> <<>>, after |-> Drop(text, cursor)]
    IN  IF At(text, r) = "*" /\ AtDollar(text, r + 1) THEN m(<<"*">>, <<>>, r)
        ELSE IF At(text, r) = "*" /\ At(text, r + 1) = SP THEN m(<<"*">>, <<SP>>, r + 1)
        ELSE IF At(text, r) = "*" /\ r + 1 <= Len(text) /\ text[r + 1] # "/"
        THEN m(<<"*">>, <<>>, r)
        ELSE IF AtDollar(text, r) THEN m(<<>>, <<>>, k)
        ELSE IF r <= Len(text) /\ text[r] \notin {"*", SP} THEN m(<<>>, <<>>, k)
        ELSE NoMatch

\* CommentTree._analyse_line with the part name: the analysed element, its
\* <indent>, <symbol> and <margin> children as fields, the tail of <margin> as
\* `text`, and no <eol> child yet.
Analysed(match, number, part) ==
    [tag |-> "line", part |-> part, number |-> number, indent |-> match.indent,
     symbol |-> match.symbol, margin |-> match.margin, text |-> match.after,
     eol |-> <<>>]

\* A mutant of _analyse_child_tail that takes the end-of-line characters off
\* the tail and makes no <eol> of them.
LoseEOL(element) ==
    [element EXCEPT !.text = Take(element.text,
                                  Len(element.text) - Trailing(element.text, {NL, "\r"}))]

\* CommentTree._analyse_child_tail: _commentEOL, [\r\n]*$, searched in the
\* tail of <margin>, splits the end-of-line characters off into <eol>.
analyse_child_tail(element) ==
    LET n == Trailing(element.text, {NL, "\r"})
    IN  [element EXCEPT !.text = Take(element.text, Len(element.text) - n),
                        !.eol = Drop(element.text, Len(element.text) - n)]

\* A line element that is not part of a comment.
Plain(number, text) == [tag |-> "line", part |-> "none", number |-> number, text |-> text]

\* -------------------------------------------------------- the segmenter

\* CommentTree.line_elements and line_expand_tabs: the element of line
\* `number`, its text with the tabs expanded.
line_expand_tabs(lines, number) == Plain(number, expandtabs(lines[number], tabSize))

\* One pass of the `while True` loop of CommentTree.line_star_slash on the
\* line element le (already read), in or out of a comment: the elements it
\* yields in order, the line element and inComment it ends with, and whether
\* it raised an AssertionError.
line_star_slash(le, inC) ==
    LET start == IF inC THEN NoMatch ELSE commentStart(le.text)
        \* what is left of the line once the start has been taken off it
        text1 == IF start.matched THEN start.after ELSE le.text
        finish == IF inC \/ start.matched THEN commentFinish(text1) ELSE NoMatch
        text2 == IF finish.matched THEN finish.before ELSE text1
        continue == IF inC /\ text2 # <<>> THEN commentContinue(text2) ELSE NoMatch
        text3 == IF start.matched \/ continue.matched THEN <<>> ELSE text2
        analysis ==
            IF start.matched
            THEN <<analyse_child_tail(
                     [Analysed(start, le.number, "start") EXCEPT !.text = text2])>>
            ELSE IF continue.matched
            THEN <<analyse_child_tail(Analysed(continue, le.number, "continue"))>>
            ELSE <<>>
        finished ==
            IF finish.matched
            THEN <<[Analysed(finish, le.number, "finish") EXCEPT !.text = <<>>]>>
            ELSE <<>>
        text4 == IF finish.matched THEN finish.after ELSE text3
        rest == IF text4 = <<>> THEN NoElem ELSE Plain(le.number, text4)
    IN  IF ~inC /\ ~start.matched
        THEN IF le.text = <<>>
             THEN [yields |-> <<>>, lineElement |-> le, inComment |-> inC, raised |-> TRUE]
             ELSE [yields |-> <<le>>, lineElement |-> NoElem, inComment |-> FALSE,
                   raised |-> FALSE]
        ELSE IF inC /\ ~continue.matched /\ ~finish.matched
        THEN \* "Failed to match line"
             [yields |-> <<>>, lineElement |-> le, inComment |-> inC, raised |-> TRUE]
        ELSE IF finish.matched /\ text3 # <<>>
        THEN \* "Unused line at finish"
             [yields |-> analysis, lineElement |-> le, inComment |-> FALSE, raised |-> TRUE]
        ELSE [yields |-> analysis \o finished, lineElement |-> rest,
              inComment |-> IF finish.matched THEN FALSE ELSE TRUE, raised |-> FALSE]

\* A mutant of comment_blocks that raises on the block left open at the end
\* of the input instead of yielding it.
NoFlush(open, out) == out

\* The tail of CommentTree.comment_blocks, after its loop: a block still open
\* at the end of the input is yielded like any other.
comment_blocks_end(open, out) == IF open.tag = "none" THEN out ELSE Append(out, open)

\* The loop body of CommentTree.comment_blocks on one element: the open block
\* and the elements yielded so far, as [open, out].
comment_blocks(state, element) ==
    LET isPart == element.part # "none"
        opened ==
            IF ~isPart THEN state.open
            ELSE IF state.open.tag = "none"
            THEN [tag |-> "comment", lineFirst |-> element.number, lines |-> <<element>>]
            ELSE [state.open EXCEPT !.lines = Append(@, element)]
        endComment == IF isPart THEN element.part = "finish" ELSE state.open.tag # "none"
        out1 == IF endComment THEN Append(state.out, opened) ELSE state.out
    IN  [open |-> IF endComment THEN NoElem ELSE opened,
         out |-> IF isPart THEN out1 ELSE Append(out1, element)]

RECURSIVE comment_blocks_all(_, _, _)
comment_blocks_all(state, yields, i) ==
    IF i > Len(yields) THEN state
    ELSE comment_blocks_all(comment_blocks(state, yields[i]), yields, i + 1)

\* ------------------------------------------------ Doctor._overwrite_one

\* The lines a source file is made of.
SourceLines ==
    { <<"a", NL>>,
      <<TAB, "a", NL>>,
      <<"a", TAB, "a", NL>>,
      <<SP, SP, "a", NL>>,
      <<"/", "*", "*", SP, "a", NL>>,
      <<SP, "*", SP, "a", NL>>,
      <<SP, "*", "/", NL>>,
      <<"/", "*", "*", SP, "a", SP, "*", "/", NL>>,
      <<"/", "*", "*", SP, "a", SP, "*", "/", "a", NL>>,
      <<"/", "*", "*", "/", NL>> }

SeqsUpTo(S, n) == UNION { [1..k -> S] : k \in 1..n }

\* What is on disk at report.path before the run: the lines as they are.
OnDisk(lines) == [i \in 1..Len(lines) |-> [kind |-> "line", number |-> i, text |-> lines[i]]]

\* The variables of the other specifications, at rest.
FileIdle ==
    /\ file = <<>> /\ disk = <<>> /\ dryRun = FALSE /\ extract = FALSE
    /\ lineNo = 0 /\ lineElement = NoElem /\ inComment = FALSE
    /\ commentElement = NoElem /\ elements = <<>> /\ written = 0 /\ temp = <<>>
TreeIdle ==
    /\ tree = NoElem /\ library = <<>> /\ leaveMarkers = FALSE
    /\ docOuters = <<>> /\ count = 0
CanIdle == parentElement = NoElem /\ childElement = NoElem /\ contained = "none"
CacheIdle ==
    docFiles = <<>> /\ cachedFragments = <<>> /\ cachedFiles = <<>> /\ loads = <<>>
CallIdle == args = <<>> /\ returned = <<>>

Init ==
    /\ file \in SeqsUpTo(SourceLines, MaxLines)
    /\ disk = OnDisk(file)
    /\ dryRun \in BOOLEAN
    /\ extract \in BOOLEAN
    /\ pc = "start"
    /\ lineNo = 0
    /\ lineElement = NoElem
    /\ inComment = FALSE
    /\ commentElement = NoElem
    /\ elements = <<>>
    /\ written = 0
    /\ temp = <<>>
    /\ TreeIdle
    /\ CanIdle
    /\ CacheIdle
    /\ CallIdle

\* Doctor._create_extract_path: nothing to do in a dry run or in injection
\* mode; otherwise the companion .md file is created, unless it exists already,
\* which is a RuntimeError.
create_extract_path ==
    /\ pc = "start"
    /\ \E exists \in BOOLEAN :
        /\ exists => (extract /\ ~dryRun)
        /\ pc' = IF exists THEN "failed" ELSE "read"
    /\ UNCHANGED <<file, disk, dryRun, extract, lineNo, lineElement, inComment,
                   commentElement, elements, written, temp>>
    /\ UNCHANGED <<treeVars, canVars, cacheVars, callVars>>

\* One pass of the loop of line_star_slash, reading the next line when none is
\* pending, with comment_blocks taking what it yields.
StarSlash ==
    /\ pc = "read"
    /\ lineElement.tag # "none" \/ lineNo < Len(file)
    /\ LET reading == lineElement.tag = "none"
           le == IF reading THEN line_expand_tabs(file, lineNo + 1) ELSE lineElement
           step == line_star_slash(le, inComment)
           blocks == comment_blocks_all(
               [open |-> commentElement, out |-> elements], step.yields, 1)
       IN  /\ lineNo' = IF reading THEN lineNo + 1 ELSE lineNo
           /\ lineElement' = step.lineElement
           /\ inComment' = step.inComment
           /\ commentElement' = blocks.open
           /\ elements' = blocks.out
           /\ pc' = IF step.raised THEN "failed" ELSE "read"
    /\ UNCHANGED <<file, disk, dryRun, extract, written, temp>>
    /\ UNCHANGED <<treeVars, canVars, cacheVars, callVars>>

\* StopIteration in line_star_slash: its loop breaks, and comment_blocks ends.
EndOfInput ==
    /\ pc = "read"
    /\ lineElement.tag = "none"
    /\ lineNo = Len(file)
    /\ elements' = comment_blocks_end(commentElement, elements)
    /\ commentElement' = NoElem
    /\ pc' = IF extract THEN "write" ELSE "tree"
    /\ UNCHANGED <<file, disk, dryRun, extract, lineNo, lineElement, inComment, written, temp>>
    /\ UNCHANGED <<treeVars, canVars, cacheVars, callVars>>

IsComment(element) == element.tag = "comment"

\* The stages of Processing.comments_to_outputs between the segmenter and
\* write_lines, each run over the whole stream before the next: they complete,
\* or one of them raises on a comment (an unsupported construct, a reference
\* that does not resolve).
TreeStages ==
    /\ pc = "tree"
    /\ \E ok \in BOOLEAN :
        /\ ok \/ \E i \in DOMAIN elements : IsComment(elements[i])
        /\ pc' = IF ok THEN "write" ELSE "failed"
    /\ UNCHANGED <<file, disk, dryRun, extract, lineNo, lineElement, inComment,
                   commentElement, elements, written, temp>>
    /\ UNCHANGED <<treeVars, canVars, cacheVars, callVars>>

\* OutputTree.write_lines on the next element: the text of a line element as
\* it is, the outputs of a comment in its place.
write_lines ==
    /\ pc = "write"
    /\ ~extract
    /\ written < Len(elements)
    /\ LET element == elements[written + 1]
       IN  temp' = Append(temp,
               IF IsComment(element)
               THEN [kind |-> "comment", number |-> element.lineFirst,
                     lines |-> element.lines]
               ELSE [kind |-> "line", number |-> element.number, text |-> element.text])
    /\ written' = written + 1
    /\ UNCHANGED <<file, disk, dryRun, extract, pc, lineNo, lineElement, inComment,
                   commentElement, elements>>
    /\ UNCHANGED <<treeVars, canVars, cacheVars, callVars>>

\* Processing.comments_to_extract on the next element: a comment is replaced
\* by a reference to the fragment extracted from it, written unless in a dry
\* run; the text of a line element is written as it is.
comments_to_extract ==
    /\ pc = "write"
    /\ extract
    /\ written < Len(elements)
    /\ LET element == elements[written + 1]
       IN  temp' =
               IF ~IsComment(element)
               THEN Append(temp, [kind |-> "line", number |-> element.number,
                                  text |-> element.text])
               ELSE IF dryRun THEN temp
               ELSE Append(temp, [kind |-> "comment", number |-> element.lineFirst,
                                  lines |-> element.lines])
    /\ written' = written + 1
    /\ UNCHANGED <<file, disk, dryRun, extract, pc, lineNo, lineElement, inComment,
                   commentElement, elements>>
    /\ UNCHANGED <<treeVars, canVars, cacheVars, callVars>>

\* The end of the stream: the temporary file is closed and the diff is made.
Diff ==
    /\ pc = "write"
    /\ written = Len(elements)
    /\ pc' = "diff"
    /\ UNCHANGED <<file, disk, dryRun, extract, lineNo, lineElement, inComment,
                   commentElement, elements, written, temp>>
    /\ UNCHANGED <<treeVars, canVars, cacheVars, callVars>>

\* A mutant of the copy that ignores dry-run mode.
CopyAlways(dry, original, edited) == edited

\* `if not self.dryRun: shutil.copy(sourcePath, report.path)`
copy(dry, original, edited) == IF dry THEN original ELSE edited

Overwrite ==
    /\ pc = "diff"
    /\ disk' = copy(dryRun, disk, temp)
    /\ pc' = "done"
    /\ UNCHANGED <<file, dryRun, extract, lineNo, lineElement, inComment,
                   commentElement, elements, written, temp>>
    /\ UNCHANGED <<treeVars, canVars, cacheVars, callVars>>

Next ==
    \/ create_extract_path
    \/ StarSlash
    \/ EndOfInput
    \/ TreeStages
    \/ write_lines
    \/ comments_to_extract
    \/ Diff
    \/ Overwrite

Spec == Init /\ [][Next]_vars

\* ------------------------------------------------------- claims C1 .. C3

\* The numbers of the source lines that have a part in a comment written to
\* the temporary file.
CommentLines ==
    UNION { { temp[i].lines[j].number : j \in DOMAIN temp[i].lines } :
            i \in { k \in DOMAIN temp : temp[k].kind = "comment" } }

\* C1: once a file has been rewritten, every piece written outside a comment
\* is, byte for byte, the end of the source line it came from, the pieces are
\* in the order of the source, and every source line with no part in a comment
\* is there whole and unchanged.
C1_NonCommentLinesUnchanged ==
    (pc \in {"diff", "done"} /\ ~extract) =>
        /\ \A i \in DOMAIN temp :
            temp[i].kind = "line" => IsSuffix(temp[i].text, file[temp[i].number])
        /\ \A i, j \in DOMAIN temp : i < j => temp[i].number <= temp[j].number
        /\ \A n \in DOMAIN file :
            n \notin CommentLines =>
                \E i \in DOMAIN temp :
                    temp[i] = [kind |-> "line", number |-> n, text |-> file[n]]

\* C2: when the input ends while the segmenter is in a comment, the run has
\* failed, and no block without a finish line is among the comments emitted.
C2_UnterminatedCommentIsFatal ==
    /\ (pc \notin {"start", "read"} /\ inComment) => pc = "failed"
    /\ \A i \in DOMAIN elements :
        IsComment(elements[i]) =>
            elements[i].lines[Len(elements[i].lines)].part = "finish"

\* C3: the file on disk differs from the original only when dry-run is off
\* and the run has come to its end with every element written; then it is the
\* content of the temporary file.
C3_OriginalKeptUnlessComplete ==
    disk # OnDisk(file) =>
        /\ ~dryRun
        /\ pc = "done"
        /\ written = Len(elements)
        /\ disk = temp

\* A run with dry-run off that has replaced the original by a rewritten file.
C3_Witness == pc = "done" /\ ~dryRun /\ disk = temp /\ disk # OnDisk(file)

\* ------------------------------------------------------- element trees

\* An element of the document tree: its tag, its layout, resolved, uri and
\* contentLines attributes ("none" where the attribute is not set) and its
\* child elements. `grafts` is not in the program: it counts the times that
\* DocGetter.read has put parsed content under the element.
Element(tag, layout, kids) ==
    [tag |-> tag, layout |-> layout, resolved |-> "none", uri |-> "none",
     contentLines |-> "none", grafts |-> 0, kids |-> kids]

\* What TreeRenderer makes of each construct.
text == Element("text", "span", <<>>)
codespan == Element("codespan", "span", <<text>>)
emphasis(kids) == Element("emphasis", "span", kids)
double_emphasis(kids) == Element("double_emphasis", "span", kids)
paragraph(kids) == Element("paragraph", "none", kids)
header(kids) == Element("header", "none", kids)
list(kids) == Element("list", "none", kids)
list_item(kids) == Element("list_item", "none", kids)
block_code == Element("block_code", "none", <<>>)
doc_uri(uri) == [Element("doc_uri", "none", <<>>) EXCEPT !.uri = uri, !.resolved = "False"]
markdown(kids) == Element("markdown", "none", kids)

\* The start and end markers that lift_trees makes for a doc_uri element.
docMarker(docElement) == [Element("doc", "marker", <<>>) EXCEPT !.uri = docElement.uri]

\* A mutant of can_contain that takes a doc_uri element for a block.
DocUriIsBlock(parentElement_, childElement_) ==
    LET parent == parentElement_.tag
        child == childElement_.tag
    IN  IF childElement_.layout \in {"span", "marker"} THEN "True"
        ELSE IF parent \in {"paragraph", "header"} THEN "False"
        ELSE IF parent = "list_item" /\ child \in {"paragraph", "list"} THEN "True"
        ELSE IF parent = "list_item" /\ child = parent THEN "False"
        ELSE IF parent = "list" THEN (IF child = "list_item" THEN "True" ELSE "False")
        ELSE "NotImplementedError"

\* markdown_tree.can_contain: "True", "False", or the error that it raises.
can_contain(parentElement_, childElement_) ==
    LET layout == childElement_.layout
        docURI == childElement_.resolved # "none"
        parent == parentElement_.tag
        child == childElement_.tag
    IN  IF layout = "span" \/ layout = "marker" \/ docURI THEN "True"
        ELSE IF parent = "paragraph" \/ parent = "header" THEN "False"
        ELSE IF parent = "list_item" /\ (child = "paragraph" \/ child = "list") THEN "True"
        ELSE IF parent = "list_item" /\ child = parent THEN "False"
        ELSE IF parent = "list" THEN (IF child = "list_item" THEN "True" ELSE "False")
        ELSE "NotImplementedError"

\* ------------------------------------------------ specification SpecCan

\* The elements that can_contain is asked about: what the renderer makes, a
\* marker, and a doc_uri element before and after DocGetter.read.
Parents ==
    { paragraph(<<>>), header(<<>>), list(<<>>), list_item(<<>>), markdown(<<>>),
      emphasis(<<>>), double_emphasis(<<>>), block_code,
      [doc_uri("A") EXCEPT !.resolved = "True"] }

Children ==
    { text, codespan, emphasis(<<text>>), double_emphasis(<<text>>),
      docMarker(doc_uri("A")),
      doc_uri("A"), [doc_uri("A") EXCEPT !.resolved = "True"],
      paragraph(<<text>>), header(<<text>>), list(<<list_item(<<text>>)>>),
      list_item(<<text>>), block_code }

CanInit ==
    /\ pc = "ask"
    /\ parentElement \in Parents
    /\ childElement \in Children
    /\ contained = "none"
    /\ FileIdle
    /\ TreeIdle
    /\ CacheIdle
    /\ CallIdle

CanContain ==
    /\ pc = "ask"
    /\ contained' = can_contain(parentElement, childElement)
    /\ pc' = "asked"
    /\ UNCHANGED <<parentElement, childElement, fileVars, treeVars, cacheVars, callVars>>

CanNext == CanContain

SpecCan == CanInit /\ [][CanNext]_vars

\* -------------------------------------------------------------- claim C8

\* The kinds of the specification, by tag.
SpanKinds == {"text", "emphasis", "double_emphasis", "codespan"}
BlockKinds == {"paragraph", "header", "list", "list_item", "block_code", "doc_uri"}

\* The containment rule as the claim words it, a doc_uri element being of a
\* block kind.
Claimed(parent, child) ==
    IF child.tag \in SpanKinds \/ child.layout = "marker" THEN "True"
    ELSE IF parent.tag \in {"paragraph", "header"} /\ child.tag \in BlockKinds THEN "False"
    ELSE IF parent.tag = "list_item" /\ child.tag \in {"paragraph", "list"} THEN "True"
    ELSE IF parent.tag = "list_item" /\ child.tag = "list_item" THEN "False"
    ELSE IF parent.tag = "list" /\ child.tag \in BlockKinds
         THEN (IF child.tag = "list_item" THEN "True" ELSE "False")
    ELSE "NotImplementedError"

\* C8 as stated: can_contain answers as the rule says for every parent and
\* child: true for a span or marker child, false for a block child of a
\* paragraph or header, true for a paragraph or list and false for a list item
\* in a list item, true only for a list item in a list, an error otherwise.
C8_AsStated ==
    pc = "asked" => contained = Claimed(parentElement, childElement)

\* C8, amended: a doc_uri element is acceptable as a child of any parent, as a
\* span or marker child is; for every other child can_contain answers as the
\* rule says.
C8_CanContain ==
    pc = "asked" =>
        contained = IF childElement.tag = "doc_uri" THEN "True"
                    ELSE Claimed(parentElement, childElement)

C8_Witness ==
    /\ pc = "asked"
    /\ parentElement.tag = "paragraph"
    /\ childElement.tag = "doc_uri"
    /\ contained = "True"

\* ---------------------------------------------------- the content cache

Range(s) == { s[i] : i \in DOMAIN s }

startswith(line, prefix) == Len(line) >= Len(prefix) /\ Take(line, Len(prefix)) = prefix

\* str.strip(), str.rstrip(chars)
strip(s) == Take(Drop(s, Leading(s, WhiteSpace)),
                 Len(s) - Leading(s, WhiteSpace) - Trailing(Drop(s, Leading(s, WhiteSpace)), WhiteSpace))
rstrip(s, chars) == Take(s, Len(s) - Trailing(s, chars))

\* `contentLines[-1] = contentLines[-1].rstrip("\n\r")`, IndexError passed.
rstrip_last(contentLines) ==
    IF contentLines = <<>> THEN contentLines
    ELSE [contentLines EXCEPT ![Len(contentLines)] = rstrip(@, {NL, "\r"})]

Cache(absPath, fragment, contentLines) ==
    [absPath |-> absPath, fragment |-> fragment, contentLines |-> contentLines]

\* One pass of the loop of Cache.read over a line. The state is the fragment
\* and contentLines of the code, <<"None">> for None, and what has been yielded.
Cache_read_line(absPath, st, line) ==
    LET closes == st.fragment # <<"None">> /\ startswith(line, <<"#">>)
                  /\ ~startswith(line, <<"#", "#">>)
        st1 == IF st.fragment = <<"None">> THEN st
               ELSE IF closes
               THEN [fragment |-> <<"None">>, contentLines |-> <<>>,
                     out |-> Append(st.out,
                         Cache(absPath, st.fragment, rstrip_last(st.contentLines)))]
               ELSE [st EXCEPT !.contentLines = Append(@, line)]
        name == strip(Drop(line, 1))
    IN  IF st1.fragment = <<"None">> /\ startswith(line, <<"#">>)
        THEN IF name = <<>> \/ startswith(name, <<"#">>)
             THEN st1
             ELSE [st1 EXCEPT !.fragment = name, !.contentLines = <<>>]
        ELSE st1

RECURSIVE Cache_read_from(_, _, _, _)
Cache_read_from(absPath, lines, i, st) ==
    IF i > Len(lines)
    THEN IF st.fragment # <<"None">>
         THEN Append(st.out, Cache(absPath, st.fragment, st.contentLines))
         ELSE st.out
    ELSE Cache_read_from(absPath, lines, i + 1, Cache_read_line(absPath, st, lines[i]))

\* Cache.read: the caches that it yields for the file at absPath, in order.
Cache_read(absPath, lines) ==
    Cache_read_from(absPath, lines, 1,
        [fragment |-> <<"None">>, contentLines |-> <<>>, out |-> <<>>])

\* A mutant of the check for a repeated fragment that never finds one.
NeverRepeated(fragment, fragments) == FALSE

\* `if cache.fragment in fragments`
repeated(fragment, fragments) == fragment \in Range(fragments)

\* A mutant of the check for a loaded file that never finds one.
NeverLoaded(path, files) == FALSE

\* `if path in self._cachedFiles`
loaded(path, files) == path \in Range(files)

\* The loop of load_file from the i-th cache that Cache.read yields. The state
\* is _cachedFragments, _cachedFiles, fragments, and whether it has raised.
RECURSIVE load_file_from(_, _, _, _)
load_file_from(path, caches, i, st) ==
    IF i > Len(caches) THEN st
    ELSE LET inserted == <<caches[i]>> \o st.cachedFragments
         IN  IF repeated(caches[i].fragment, st.fragments)
             THEN [st EXCEPT !.cachedFragments = inserted, !.raised = TRUE]
             ELSE load_file_from(path, caches, i + 1,
                     [cachedFragments |-> inserted,
                      cachedFiles |-> Append(st.cachedFiles, path),
                      fragments |-> Append(st.fragments, caches[i].fragment),
                      raised |-> FALSE])

\* DocGetter.load_file
load_file(path, lines, fragments_, files) ==
    IF loaded(path, files)
    THEN [cachedFragments |-> fragments_, cachedFiles |-> files,
          fragments |-> <<>>, raised |-> FALSE]
    ELSE load_file_from(path, Cache_read(path, lines), 1,
            [cachedFragments |-> fragments_, cachedFiles |-> files,
             fragments |-> <<>>, raised |-> FALSE])

\* ---------------------------------------------- specification SpecCache

Paths == {"p", "q"}

\* The lines that a documentation file is made of. Only the last line of a
\* file can be without its end of line.
DocLines ==
    { <<"#", "A", NL>>,
      <<"#", "B", NL>>,
      <<"#", SP, "A", SP, NL>>,
      <<"#", "#", "A", NL>>,
      <<"#", NL>>,
      <<"a", NL>>,
      <<"a">> }

DocFile(lines) == \A i \in 1..(Len(lines) - 1) : lines[i][Len(lines[i])] = NL

\* The other file has one fragment, of a name that is in the first file too.
OtherFile == << <<"#", "A", NL>>, <<"a", NL>> >>

CacheInit ==
    /\ pc = "load"
    /\ \E lines \in {<<>>} \cup SeqsUpTo(DocLines, MaxDocLines) :
        /\ DocFile(lines)
        /\ docFiles = [path \in Paths |-> IF path = "p" THEN lines ELSE OtherFile]
    /\ cachedFragments = <<>>
    /\ cachedFiles = <<>>
    /\ loads = <<>>
    /\ FileIdle
    /\ TreeIdle
    /\ CanIdle
    /\ CallIdle

\* DocGetter.load on the path of a file, or the load_file of _get_content. The
\* RuntimeError of load_file is caught nowhere: it ends the program.
Load(path) ==
    /\ pc = "load"
    /\ Len(loads) < MaxLoads
    /\ LET result == load_file(path, docFiles[path], cachedFragments, cachedFiles)
       IN  /\ cachedFragments' = result.cachedFragments
           /\ cachedFiles' = result.cachedFiles
           /\ pc' = IF result.raised THEN "failed" ELSE "load"
    /\ loads' = Append(loads, path)
    /\ UNCHANGED <<docFiles, fileVars, treeVars, canVars, callVars>>

CacheNext == \E path \in Paths : Load(path)

SpecCache == CacheInit /\ [][CacheNext]_vars

\* ------------------------------------------------------ claims C9, C10

\* The names of the fragment headers of a file, in order: a header is a line
\* that starts with one "#", not two, and has a name after it.
IsHeader(line) ==
    /\ Len(line) >= 1 /\ line[1] = "#"
    /\ ~(Len(line) >= 2 /\ line[2] = "#")
    /\ strip(Drop(line, 1)) # <<>>
HeaderNames(lines) ==
    LET headers == SelectSeq(lines, IsHeader)
    IN  [i \in DOMAIN headers |-> strip(Drop(headers[i], 1))]
HasRepeat(names) == \E i, j \in DOMAIN names : i < j /\ names[i] = names[j]

\* C9: the load of a file that has two fragment headers of the same name
\* raises, which ends the program; and while no load has raised, no file has
\* two fragments of the same name in the cache.
C9_RepeatedFragmentIsFatal ==
    /\ (\E path \in Range(loads) : HasRepeat(HeaderNames(docFiles[path])))
            => pc = "failed"
    /\ pc # "failed" =>
            \A i, j \in DOMAIN cachedFragments :
                (i < j /\ cachedFragments[i].absPath = cachedFragments[j].absPath)
                    => cachedFragments[i].fragment # cachedFragments[j].fragment

C9_Witness ==
    /\ pc = "failed"
    /\ loads = <<"q", "p">>
    /\ HasRepeat(HeaderNames(docFiles["p"]))

\* C10: a load of a file that has been loaded before leaves the cached
\* fragments as they are, the same ones in the same order.
C10_ReloadChangesNothing ==
    [][(loads' # loads /\ loads'[Len(loads')] \in Range(loads))
            => cachedFragments' = cachedFragments]_vars

C10_Witness ==
    /\ pc = "load"
    /\ Len(loads) = 3 /\ loads[1] = "p" /\ loads[3] = "p"
    /\ Cardinality({ i \in DOMAIN cachedFragments : cachedFragments[i].absPath = "p" }) = 2

\* ------------------------------------------------- finding in element trees

\* A descendant is named by its path: the indexes, from 1, from child to child.
RECURSIVE NodeAt(_, _)
NodeAt(t, path) == IF path = <<>> THEN t ELSE NodeAt(t.kids[Head(path)], Tail(path))

RECURSIVE SetAt(_, _, _)
SetAt(t, path, new) ==
    IF path = <<>> THEN new
    ELSE [t EXCEPT !.kids[Head(path)] = SetAt(@, Tail(path), new)]

\* The paths of all the descendants of an element, in document order.
RECURSIVE iter(_, _, _)
iter(t, prefix, i) ==
    IF i > Len(t.kids) THEN <<>>
    ELSE <<Append(prefix, i)>> \o iter(t.kids[i], Append(prefix, i), 1) \o iter(t, prefix, i + 1)

\* element.findall(".//*[@attribute='value']")
findall(t, attribute, value) ==
    SelectSeq(iter(t, <<>>, 1), LAMBDA path : NodeAt(t, path)[attribute] = value)

\* A mutant of the [@resolved] test that passes only what lift_singles lifted.
LiftedOnly(e) == e.contentLines = "lifted"

\* [@resolved]
HasResolved(e) == e.resolved # "none"

\* How many doc_uri elements there are from the top down to the one at path.
RECURSIVE Nesting(_, _)
Nesting(t, path) ==
    IF path = <<>> THEN 0
    ELSE (IF t.kids[Head(path)].tag = "doc_uri" THEN 1 ELSE 0)
            + Nesting(t.kids[Head(path)], Tail(path))

\* find: the first of what is found, by index.
First(found) == CHOOSE i \in found : \A j \in found : i <= j

HasResolvedKid(e) == \E i \in DOMAIN e.kids : HasResolved(e.kids[i])

\* ET_grandparent(element, '*[@resolved]'): the path of the grandparent, and
\* the indexes of the parent in it and of the child in the parent; no
\* grandparent is found = FALSE.
ET_grandparent(t) ==
    LET matches == SelectSeq(iter(t, <<>>, 1),
                        LAMBDA path : Len(path) >= 2 /\ HasResolved(NodeAt(t, path)))
        gpath == Take(Head(matches), Len(Head(matches)) - 2)
        grandparent == NodeAt(t, gpath)
        parentAt == First({ i \in DOMAIN grandparent.kids : HasResolvedKid(grandparent.kids[i]) })
        parent == grandparent.kids[parentAt]
        childAt == First({ i \in DOMAIN parent.kids : HasResolved(parent.kids[i]) })
    IN  IF matches = <<>> THEN [found |-> FALSE]
        ELSE [found |-> TRUE, grandparent |-> gpath, parentAt |-> parentAt,
              childAt |-> childAt]

\* list.insert(index, item), the index from 0.
insert(s, index, item) == Take(s, index) \o <<item>> \o Drop(s, index)

\* --------------------------------------------------------- DocGetter.read

\* A mutant of graft that marks the element and puts nothing under it.
MarkOnly(docOuter, cache) ==
    [docOuter EXCEPT !.contentLines = cache.contentLines, !.resolved = "True"]

\* The body of the loop over the findall list, for a doc_uri element and the
\* cached fragment that its uri names: resolve sets contentLines, and the parse
\* of the content is put under the element.
graft(docOuter, cache) ==
    [docOuter EXCEPT !.contentLines = cache.contentLines,
                     !.kids = @ \o cache.parsed,
                     !.grafts = @ + 1,
                     !.resolved = "True"]

\* ------------------------------------------------- specification SpecTree

Names == {"A", "B"}

\* A cached fragment, as resolve and the tree parser give it: the count of its
\* content lines and the elements that its content parses to.
Fragment(contentLines, parsed) == [contentLines |-> contentLines, parsed |-> parsed]

\* The fragments that have no reference in them: no content, a line of text, a
\* header, a blank line, two paragraphs, a header and a paragraph, a list, a
\* code block, a paragraph of two lines, a list of one line.
PlainFragments ==
    { Fragment("0", <<>>),
      Fragment("1", <<paragraph(<<text>>)>>),
      Fragment("1", <<header(<<text>>)>>),
      Fragment("1", <<>>),
      Fragment("3", <<paragraph(<<text>>), paragraph(<<text>>)>>),
      Fragment("2", <<header(<<text>>), paragraph(<<text>>)>>),
      Fragment("2", <<list(<<list_item(<<text>>), list_item(<<text>>)>>)>>),
      Fragment("2", <<block_code>>),
      Fragment("2", <<paragraph(<<text>>)>>),
      Fragment("1", <<list(<<list_item(<<text>>)>>)>>) }

\* The fragments that have a reference to the fragment of the name uri.
ReferringFragments(uri) ==
    { Fragment("1", <<paragraph(<<text, doc_uri(uri), text>>)>>),
      Fragment("1", <<paragraph(<<doc_uri(uri)>>)>>),
      Fragment("3", <<paragraph(<<text>>), paragraph(<<text, doc_uri(uri)>>)>>),
      Fragment("2", <<list(<<list_item(<<text>>), list_item(<<doc_uri(uri)>>)>>)>>),
      Fragment("2", <<paragraph(<<text, emphasis(<<doc_uri(uri)>>)>>)>>),
      Fragment("2", <<header(<<doc_uri(uri)>>), paragraph(<<text>>)>>) }

Fragments == PlainFragments \cup UNION { ReferringFragments(uri) : uri \in Names }

\* What the text of a comment parses to: a reference in a paragraph, alone in
\* a paragraph, in a header, in an item of a tight list and of a loose list, in
\* an emphasis, two references, none, and one to a fragment that is not cached.
Comments ==
    { <<paragraph(<<text, doc_uri("A"), text>>)>>,
      <<paragraph(<<doc_uri("A")>>)>>,
      <<header(<<text, doc_uri("A")>>)>>,
      <<list(<<list_item(<<doc_uri("A"), text>>)>>)>>,
      <<list(<<list_item(<<paragraph(<<doc_uri("A")>>)>>)>>)>>,
      <<paragraph(<<emphasis(<<doc_uri("A")>>), text>>)>>,
      <<paragraph(<<doc_uri("A"), text, doc_uri("B")>>), paragraph(<<text>>)>>,
      <<paragraph(<<text>>)>>,
      <<paragraph(<<doc_uri("Z")>>)>> }

\* The comment element after TreeParser.read: the extract and its parse.
TreeInit ==
    /\ pc = "findall"
    /\ \E kids \in Comments :
        tree = Element("comment", "none",
                       <<Element("extract", "none", <<>>), markdown(kids)>>)
    /\ library \in [Names -> Fragments]
    /\ leaveMarkers \in BOOLEAN
    /\ docOuters = <<>>
    /\ count = 0
    /\ FileIdle
    /\ CanIdle
    /\ CacheIdle
    /\ CallIdle

\* DocGetter.read: the start of a pass of the `while True` loop.
FindAll ==
    /\ pc = "findall"
    /\ docOuters' = findall(tree, "resolved", "False")
    /\ count' = 0
    /\ pc' = "resolve"
    /\ UNCHANGED <<tree, library, leaveMarkers, fileVars, canVars, cacheVars, callVars>>

\* DocGetter.read: the body of the `for docOuter` loop. _get_content raises
\* ValueError for a fragment that is not in the cache.
Resolve ==
    /\ pc = "resolve"
    /\ docOuters # <<>>
    /\ Nesting(tree, Head(docOuters)) <= MaxDepth
    /\ LET docOuter == NodeAt(tree, Head(docOuters))
       IN  IF docOuter.uri \in DOMAIN library
           THEN /\ tree' = SetAt(tree, Head(docOuters), graft(docOuter, library[docOuter.uri]))
                /\ count' = count + 1
                /\ docOuters' = Tail(docOuters)
                /\ pc' = "resolve"
           ELSE /\ pc' = "failed"
                /\ UNCHANGED <<tree, count, docOuters>>
    /\ UNCHANGED <<library, leaveMarkers, fileVars, canVars, cacheVars, callVars>>

\* DocGetter.read: `if count == 0: break`, and the element is yielded.
EndOfPass ==
    /\ pc = "resolve"
    /\ docOuters = <<>>
    /\ pc' = IF count = 0 THEN "singles" ELSE "findall"
    /\ UNCHANGED <<treeVars, fileVars, canVars, cacheVars, callVars>>

\* A mutant of lift_singles that marks what it finds and leaves the paragraph
\* where it is.
KeepParagraph ==
    /\ pc = "singles"
    /\ findall(tree, "contentLines", "1") # <<>>
    /\ tree' = SetAt(tree, Head(findall(tree, "contentLines", "1")),
                     [NodeAt(tree, Head(findall(tree, "contentLines", "1")))
                        EXCEPT !.contentLines = "lifted"])
    /\ pc' = "singles"
    /\ UNCHANGED <<library, leaveMarkers, docOuters, count, fileVars, canVars, cacheVars, callVars>>

\* lift_singles: one pass of its `while True` loop, with an element found that
\* has contentLines='1'. What is found without children is marked; with one
\* child, a paragraph, the child is taken out and its children put in its
\* place; anything else is a NotImplementedError.
LiftSingle ==
    /\ pc = "singles"
    /\ findall(tree, "contentLines", "1") # <<>>
    /\ LET at == Head(findall(tree, "contentLines", "1"))
           found == NodeAt(tree, at)
       IN  IF Len(found.kids) = 0
           THEN /\ tree' = SetAt(tree, at, [found EXCEPT !.contentLines = "zero"])
                /\ pc' = "singles"
           ELSE IF Len(found.kids) # 1 \/ found.kids[1].tag # "paragraph"
           THEN /\ pc' = "failed"
                /\ UNCHANGED tree
           ELSE /\ tree' = SetAt(tree, at,
                    [found EXCEPT !.kids = found.kids[1].kids, !.contentLines = "lifted"])
                /\ pc' = "singles"
    /\ UNCHANGED <<library, leaveMarkers, docOuters, count, fileVars, canVars, cacheVars, callVars>>

\* lift_singles: nothing is found, and the element is yielded.
SinglesDone ==
    /\ pc = "singles"
    /\ findall(tree, "contentLines", "1") = <<>>
    /\ pc' = "trees"
    /\ UNCHANGED <<treeVars, fileVars, canVars, cacheVars, callVars>>

\* lift_trees: the loop over the children of the doc_uri element, from the
\* i-th. The state is the children of the parent and of the grandparent,
\* whether insertParent is still the parent, insertIndex, whether docStart is
\* still to be inserted, and whether can_contain has raised.
RECURSIVE lift_children(_, _, _, _, _, _)
lift_children(parent, docElement, parentIndex, marker, i, st) ==
    IF i > Len(docElement.kids) \/ st.raised THEN st
    ELSE LET child == docElement.kids[i]
             can == IF st.inParent THEN can_contain(parent, child) ELSE "True"
             inParent == st.inParent /\ can = "True"
             index0 == IF st.inParent /\ ~inParent THEN parentIndex + 1 ELSE st.insertIndex
             items == IF st.docStart THEN <<marker, child>> ELSE <<child>>
         IN  IF can = "NotImplementedError" THEN [st EXCEPT !.raised = TRUE]
             ELSE lift_children(parent, docElement, parentIndex, marker, i + 1,
                    [parentKids |-> IF inParent
                                    THEN Take(st.parentKids, index0) \o items
                                            \o Drop(st.parentKids, index0)
                                    ELSE st.parentKids,
                     grandKids |-> IF inParent THEN st.grandKids
                                   ELSE Take(st.grandKids, index0) \o items
                                            \o Drop(st.grandKids, index0),
                     inParent |-> inParent,
                     insertIndex |-> index0 + Len(items),
                     docStart |-> FALSE,
                     raised |-> FALSE])

\* A mutant of the insertion that puts an element for the grandparent at the
\* end of it.
InsertLast(st, item) ==
    [st EXCEPT !.parentKids = IF st.inParent THEN insert(@, st.insertIndex, item) ELSE @,
               !.grandKids = IF st.inParent THEN @ ELSE Append(@, item),
               !.insertIndex = @ + 1,
               !.docStart = FALSE]

\* insertParent.insert(insertIndex, item); insertIndex += 1
insert_here(st, item) ==
    [st EXCEPT !.parentKids = IF st.inParent THEN insert(@, st.insertIndex, item) ELSE @,
               !.grandKids = IF st.inParent THEN @ ELSE insert(@, st.insertIndex, item),
               !.insertIndex = @ + 1,
               !.docStart = FALSE]

\* A mutant of lift_one that puts the children where the doc_uri element was,
\* whatever they are.
LiftInPlace(grandparent, parentIndex, docIndex, markers) ==
    LET parent == grandparent.kids[parentIndex + 1]
        lifted == Take(parent.kids, docIndex) \o parent.kids[docIndex + 1].kids
                    \o Drop(parent.kids, docIndex + 1)
    IN  [raised |-> FALSE,
         element |-> [grandparent EXCEPT !.kids[parentIndex + 1].kids = lifted]]

\* lift_trees: the body of its `while True` loop after ET_grandparent, on the
\* grandparent element. The indexes are from 0, as in the code.
lift_one(grandparent, parentIndex, docIndex, markers) ==
    LET parent == grandparent.kids[parentIndex + 1]
        docElement == parent.kids[docIndex + 1]
        st0 == [parentKids |-> Take(parent.kids, docIndex) \o Drop(parent.kids, docIndex + 1),
                grandKids |-> grandparent.kids,
                inParent |-> TRUE,
                insertIndex |-> docIndex,
                docStart |-> markers,
                raised |-> FALSE]
        st1 == lift_children(parent, docElement, parentIndex, docMarker(docElement), 1, st0)
        st2 == IF st1.docStart THEN insert_here(st1, docMarker(docElement)) ELSE st1
        st3 == IF markers THEN insert_here(st2, docMarker(docElement)) ELSE st2
        st4 == IF ~st3.inParent /\ Len(st3.parentKids) > docIndex
               THEN [insert_here(st3, [parent EXCEPT !.kids = Drop(st3.parentKids, docIndex)])
                        EXCEPT !.parentKids = Take(st3.parentKids, docIndex)]
               ELSE st3
        kept == [st4.grandKids EXCEPT ![parentIndex + 1] = [parent EXCEPT !.kids = st4.parentKids]]
    IN  [raised |-> st1.raised,
         element |-> [grandparent EXCEPT !.kids =
                        IF docIndex = 0 /\ Len(st4.parentKids) = 0
                        THEN Take(kept, parentIndex) \o Drop(kept, parentIndex + 1)
                        ELSE kept]]

\* lift_trees: one pass of its `while True` loop, with a grandparent found.
LiftTree ==
    /\ pc = "trees"
    /\ ET_grandparent(tree).found
    /\ LET where == ET_grandparent(tree)
           lifted == lift_one(NodeAt(tree, where.grandparent),
                              where.parentAt - 1, where.childAt - 1, leaveMarkers)
       IN  IF lifted.raised
           THEN pc' = "failed" /\ UNCHANGED tree
           ELSE pc' = "trees" /\ tree' = SetAt(tree, where.grandparent, lifted.element)
    /\ UNCHANGED <<library, leaveMarkers, docOuters, count, fileVars, canVars, cacheVars, callVars>>

\* The tags of the descendants of an element.
RECURSIVE DescendantTags(_)
DescendantTags(t) ==
    UNION { {t.kids[i].tag} \cup DescendantTags(t.kids[i]) : i \in DOMAIN t.kids }

\* Whether a descendant with one of the outer tags has itself a descendant
\* with one of the inner tags: element.find(".//outer//inner") finds one.
Within(t, outer, inner) ==
    \E path \in Range(iter(t, <<>>, 1)) :
        /\ NodeAt(t, path).tag \in outer
        /\ DescendantTags(NodeAt(t, path)) \cap inner # {}

\* lift_trees: no grandparent is found; then a paragraph in a paragraph is an
\* AssertionError, and otherwise the element is yielded.
TreesDone ==
    /\ pc = "trees"
    /\ ~ET_grandparent(tree).found
    /\ pc' = IF Within(tree, {"paragraph"}, {"paragraph"}) THEN "failed" ELSE "done"
    /\ UNCHANGED <<treeVars, fileVars, canVars, cacheVars, callVars>>

TreeNext ==
    \/ FindAll
    \/ Resolve
    \/ EndOfPass
    \/ LiftSingle
    \/ SinglesDone
    \/ LiftTree
    \/ TreesDone

SpecTree == TreeInit /\ [][TreeNext]_vars

\* The same, with the loop of DocGetter.read scheduled: the program is
\* sequential, and a loop that can go on does go on.
FairSpecTree == SpecTree /\ WF_vars(FindAll \/ Resolve \/ EndOfPass)

\* ------------------------------------------------------- claims C4 .. C7

\* The uris of the doc_uri elements among some elements and their descendants.
RECURSIVE Uris(_)
Uris(kids) ==
    UNION { (IF kids[i].tag = "doc_uri" THEN {kids[i].uri} ELSE {}) \cup Uris(kids[i].kids) :
            i \in DOMAIN kids }

\* The fragments that the fragments of some names refer to, in n steps or fewer.
RECURSIVE Reach(_, _)
Reach(names, n) ==
    IF n = 0 THEN names
    ELSE Reach(names \cup UNION { Uris(library[name].parsed) : name \in names \cap Names }, n - 1)

\* No fragment that the comment refers to, directly or not, refers to itself,
\* directly or not.
Acyclic ==
    \A name \in Reach(Uris(tree.kids), Cardinality(Names)) \cap Names :
        name \notin Reach(Uris(library[name].parsed), Cardinality(Names))

DocUriPaths == SelectSeq(iter(tree, <<>>, 1), LAMBDA path : NodeAt(tree, path).tag = "doc_uri")

Tags(kids) == [i \in DOMAIN kids |-> kids[i].tag]

\* DocGetter.read has yielded the element, and lift_singles has not begun.
ReadYielded ==
    /\ pc = "singles"
    /\ \A path \in Range(DocUriPaths) :
            NodeAt(tree, path).contentLines \notin {"zero", "lifted"}

\* C4: when DocGetter.read has yielded the element, no doc_uri element is
\* unresolved and each has had the parse of its fragment put under it once; and
\* if the references are acyclic, read comes to yield the element or to raise.
C4_AcyclicReadCompletes ==
    /\ [](ReadYielded =>
            \A path \in Range(DocUriPaths) :
                LET e == NodeAt(tree, path)
                IN  /\ e.resolved = "True"
                    /\ e.grafts = 1
                    /\ Tags(e.kids) = Tags(library[e.uri].parsed))
    /\ (Acyclic => <>(pc \notin {"findall", "resolve"}))

C4_Witness ==
    /\ ReadYielded
    /\ Acyclic
    /\ \E path \in Range(DocUriPaths) : Nesting(tree, path) = 2

\* C5: DocGetter.read comes to an end on every input. A pass of its loop
\* resolves one more level of nesting, and references that come to an end nest
\* no deeper than there are fragments: so no doc_uri element is nested deeper.
C5_ReadTerminates ==
    \A path \in Range(DocUriPaths) : Nesting(tree, path) <= Cardinality(Names)

\* C6: when lift_trees has yielded the element there is no doc_uri element in
\* it, nor any element with the resolved attribute; and each pass of its loop
\* leaves one doc_uri element fewer, so that the passes come to an end.
C6_NoReferenceLeft ==
    /\ [](pc = "done" =>
            \A path \in Range(iter(tree, <<>>, 1)) :
                NodeAt(tree, path).tag # "doc_uri" /\ NodeAt(tree, path).resolved = "none")
    /\ [][(pc = "trees" /\ pc' = "trees") => Len(DocUriPaths') = Len(DocUriPaths) - 1]_vars

C6_Witness ==
    /\ pc = "done"
    /\ Len(SelectSeq(iter(tree, <<>>, 1), LAMBDA path : NodeAt(tree, path).tag = "doc")) >= 4

\* C7: when lift_trees has yielded the element, no paragraph or header has a
\* paragraph, header, list, list item or code block below it.
C7_Containment ==
    pc = "done" =>
        ~Within(tree, {"paragraph", "header"},
                {"paragraph", "header", "list", "list_item", "block_code"})

C7_Witness ==
    /\ pc = "done"
    /\ ~leaveMarkers
    /\ Len(tree.kids[2].kids) >= 4

\* ------------------------------------------------------------ claim C11

\* A line that begins with one "#", not two.
SingleHash(line) ==
    Len(line) >= 1 /\ line[1] = "#" /\ ~(Len(line) >= 2 /\ line[2] = "#")

\* The index of the first line after the h-th that begins with one "#", or
\* the one after the last line.
RECURSIVE BodyEnd(_, _)
BodyEnd(lines, i) ==
    IF i > Len(lines) \/ SingleHash(lines[i]) THEN i ELSE BodyEnd(lines, i + 1)

\* A line without the end of line that it has at its end.
RECURSIVE NoEOL(_)
NoEOL(line) ==
    IF line # <<>> /\ line[Len(line)] \in {NL, "\r"}
    THEN NoEOL(Take(line, Len(line) - 1))
    ELSE line

\* The fragment of the header at line h, as the format has it: the name, and
\* the lines up to the next line that begins with one "#", the last of them
\* without its end of line.
FormatFragment(lines, h) ==
    LET body == [i \in 1..(BodyEnd(lines, h + 1) - h - 1) |-> lines[h + i]]
    IN  [fragment |-> strip(Drop(lines[h], 1)),
         contentLines |-> IF body = <<>> THEN body
                          ELSE [body EXCEPT ![Len(body)] = NoEOL(@)]]

FormatFragments(lines) ==
    { FormatFragment(lines, h) : h \in { i \in DOMAIN lines : IsHeader(lines[i]) } }

\* C11: the fragments cached from a file that has loaded are those of the
\* format: one for each header, with the lines of its body, the last of them
\* without its end of line, whether a header or the end of the file follows.
C11_FragmentFormat ==
    (pc = "load" /\ "p" \in Range(loads)) =>
        { [fragment |-> cachedFragments[i].fragment,
           contentLines |-> cachedFragments[i].contentLines] :
                i \in { j \in DOMAIN cachedFragments : cachedFragments[j].absPath = "p" } }
            = FormatFragments(docFiles["p"])

\* ------------------------------------------------- DocGetter._get_content

\* A uri is modelled by what urlparse makes of it: its scheme, netloc, path
\* and fragment. A path is the sequence of the names in it.
Uri(scheme, netloc, path, fragment) ==
    [scheme |-> scheme, netloc |-> netloc, path |-> path, fragment |-> fragment]

\* os.path.dirname of an absolute path.
dirname(path) == Take(path, Len(path) - 1)

\* The path that _get_content makes for a uri, <<"None">> for None, or the
\* ValueError that it raises for a netloc that it does not know.
content_path(parsed, basePath) ==
    IF parsed.netloc = "." THEN dirname(basePath) \o parsed.path
    ELSE IF parsed.netloc = ".." THEN dirname(dirname(basePath)) \o parsed.path
    ELSE IF parsed.netloc = "" THEN <<"None">>
    ELSE <<"ValueError">>

\* A mutant of the loop over the cached fragments that stops at the first
\* cache that matches.
FirstMatch(fragments_, parsed, path) ==
    LET matches == SelectSeq(fragments_, LAMBDA cache :
                        /\ cache.fragment = parsed.fragment
                        /\ (path = <<"None">> \/ cache.absPath = path))
    IN  IF matches = <<>> THEN <<>> ELSE <<matches[1]>>

\* `for cache in self._cachedFragments`: the last cache that matches, if any.
last_match(fragments_, parsed, path) ==
    LET matches == SelectSeq(fragments_, LAMBDA cache :
                        /\ cache.fragment = parsed.fragment
                        /\ (path = <<"None">> \/ cache.absPath = path))
    IN  IF matches = <<>> THEN <<>> ELSE <<matches[Len(matches)]>>

\* DocGetter._get_content: the error that it raises, "none" for none, the
\* cache that it returns, and what it leaves in the getter. The open of a file
\* that is not there is an IOError, which is raised again with the uri.
get_content(parsed, basePath, files, fragments_, loaded_) ==
    LET path == content_path(parsed, basePath)
        reads == path \notin {<<"None">>, <<"ValueError">>}
        missing == reads /\ ~loaded(path, loaded_) /\ path \notin DOMAIN files
        load == IF reads /\ ~missing
                THEN load_file(path, IF path \in DOMAIN files THEN files[path] ELSE <<>>,
                               fragments_, loaded_)
                ELSE [cachedFragments |-> fragments_, cachedFiles |-> loaded_,
                      fragments |-> <<>>, raised |-> FALSE]
        cached == last_match(load.cachedFragments, parsed, path)
    IN  [raised |-> IF path = <<"ValueError">> THEN "ValueError"
                    ELSE IF missing THEN "IOError"
                    ELSE IF load.raised THEN "RuntimeError"
                    ELSE IF cached = <<>> THEN "ValueError"
                    ELSE "none",
         cached |-> IF path = <<"ValueError">> \/ missing \/ load.raised THEN <<>> ELSE cached,
         cachedFragments |-> load.cachedFragments,
         cachedFiles |-> load.cachedFiles]

\* ------------------------------------------------ specification SpecGet

\* The source file of the comment, and the files that its uris can name.
SourcePath == <<"d", "s", "source.h">>
Here == <<"d", "s", "n">>
Up == <<"d", "n">>

\* The documentation files on disk: both, one, one with a repeated fragment,
\* none.
FileSystems ==
    LET FileAB == << <<"#", "A", NL>>, <<"a", NL>>, <<"#", "B", NL>>, <<"b", NL>> >>
        FileA == << <<"#", "A", NL>>, <<"a", "a", NL>> >>
        FileAA == << <<"#", "A", NL>>, <<"#", "A", NL>> >>
    IN  { [path \in {Here, Up} |-> IF path = Here THEN FileAB ELSE FileA],
          [path \in {Here} |-> FileAB],
          [path \in {Up} |-> FileA],
          [path \in {Here, Up} |-> IF path = Here THEN FileAA ELSE FileAB],
          <<>> }

ParsedUris ==
    { Uri(scheme, netloc, path, fragment) :
        scheme \in {"doc", "http"}, netloc \in {"", ".", "..", "host"},
        path \in {<<"n">>, <<"x">>}, fragment \in {<<"A">>, <<"B">>, <<"Z">>} }

\* The getter as it is made, or after load_cache has loaded the file that is
\* there in the directory above.
GetInit ==
    /\ pc = "get"
    /\ docFiles \in FileSystems
    /\ \E preload \in BOOLEAN :
        LET before == IF preload /\ Up \in DOMAIN docFiles
                      THEN load_file(Up, docFiles[Up], <<>>, <<>>)
                      ELSE load_file(Up, <<>>, <<>>, <<>>)
        IN  /\ cachedFragments = before.cachedFragments
            /\ cachedFiles = before.cachedFiles
    /\ loads = <<>>
    /\ args = <<>>
    /\ returned = <<>>
    /\ FileIdle
    /\ TreeIdle
    /\ CanIdle

\* DocGetter.get_content, or resolve, on a uri of the source file. An error
\* ends the program: ValueError and OSError in default_main, RuntimeError
\* nowhere.
GetContent(parsed) ==
    /\ pc = "get"
    /\ Len(loads) < MaxGets
    /\ LET got == get_content(parsed, SourcePath, docFiles, cachedFragments, cachedFiles)
       IN  /\ returned' = [raised |-> got.raised, cached |-> got.cached]
           /\ cachedFragments' = got.cachedFragments
           /\ cachedFiles' = got.cachedFiles
           /\ pc' = IF got.raised = "none" THEN "get" ELSE "failed"
    /\ args' = parsed
    /\ loads' = Append(loads, content_path(parsed, SourcePath))
    /\ UNCHANGED <<docFiles, fileVars, treeVars, canVars>>

GetNext == \E parsed \in ParsedUris : GetContent(parsed)

SpecGet == GetInit /\ [][GetNext]_vars

\* ------------------------------------------------------------ claim C12

\* C12: a lookup raises an error, and returns no content, when the scheme of
\* the uri is not doc, when its host is none of empty, "." and "..", when the
\* file that it names cannot be read, and when there is no fragment of its
\* name in the file that it names, or in the cache for a uri that names none.
C12_LookupErrors ==
    (args # <<>>) =>
        LET path == loads[Len(loads)]
            names == IF args.netloc = ""
                     THEN { cachedFragments[i].fragment : i \in DOMAIN cachedFragments }
                     ELSE IF path \in DOMAIN docFiles
                     THEN Range(HeaderNames(docFiles[path]))
                     ELSE {}
        IN  (\/ args.scheme # "doc"
             \/ args.netloc \notin {"", ".", ".."}
             \/ (args.netloc # "" /\ path \notin DOMAIN docFiles)
             \/ args.fragment \notin names)
                => (pc = "failed" /\ returned.raised # "none" /\ returned.cached = <<>>)

\* ------------------------------------------------------------ at-commands

LowerCase == <<"a", "b", "c", "d", "e", "f", "g", "h", "i", "j", "k", "l", "m", "n", "o", "p",
        "q", "r", "s", "t", "u", "v", "w", "x", "y", "z">>
UpperCase == <<"A", "B", "C", "D", "E", "F", "G", "H", "I", "J", "K", "L", "M", "N", "O", "P",
        "Q", "R", "S", "T", "U", "V", "W", "X", "Y", "Z">>

\* str.lower, str.upper and str.capitalize, on the letters of ASCII.
lower(s) ==
    [i \in DOMAIN s |->
        IF \E k \in DOMAIN UpperCase : UpperCase[k] = s[i]
        THEN LowerCase[CHOOSE k \in DOMAIN UpperCase : UpperCase[k] = s[i]]
        ELSE s[i]]

upper(s) ==
    [i \in DOMAIN s |->
        IF \E k \in DOMAIN LowerCase : LowerCase[k] = s[i]
        THEN UpperCase[CHOOSE k \in DOMAIN LowerCase : LowerCase[k] = s[i]]
        ELSE s[i]]

capitalize(s) == upper(Take(s, 1)) \o lower(Drop(s, 1))

\* What the re \w matches, in ASCII.
WordChars ==
    Range(LowerCase) \cup Range(UpperCase) \cup
        {"_", "0", "1", "2", "3", "4", "5", "6", "7", "8", "9"}

\* OutputTree.atCommand, matched at the start of the text:
\*     @(?:(?P<commandDrop>(?:brief|description|details)) +
\*        |(?P<commandReturn>return)s? +
\*        |(?P<commandCapitalise>version) +
\*        |(?P<commandParameter>param)(?:eter)? +(?P<name>\w+) *
\*        |(?P<commandIgnore>file) +)
\* The pattern is compiled without flags, so that it matches the letters as
\* they are written. group is the first of matched_groups(match), which is the
\* command group as it starts before the name; end is match.end().
atCommand(string) ==
    LET has(w, i) ==
            i + Len(w) - 1 <= Len(string) /\ SubSeq(string, i, i + Len(w) - 1) = w
        \* A keyword after the at sign, a suffix if it is there, and one or
        \* more spaces.
        command(group, w, suffix) ==
            LET afterSuffix ==
                    IF has(suffix, 2 + Len(w)) THEN 2 + Len(w) + Len(suffix)
                    ELSE 2 + Len(w)
                end == LeadingFrom(string, {SP}, afterSuffix)
            IN  IF has(<<"@">>, 1) /\ has(w, 2) /\ end >= afterSuffix
                THEN [matched |-> TRUE, group |-> group, value |-> w,
                      name |-> <<>>, end |-> end]
                ELSE NoMatch
        first(matches) ==
            IF \E i \in DOMAIN matches : matches[i].matched
            THEN matches[CHOOSE i \in DOMAIN matches :
                    /\ matches[i].matched
                    /\ \A j \in 1..(i - 1) : ~matches[j].matched]
            ELSE NoMatch
        param == command("commandParameter", <<"p", "a", "r", "a", "m">>, <<"e", "t", "e", "r">>)
        nameEnd == LeadingFrom(string, WordChars, param.end + 1)
    IN  first(<<
            command("commandDrop", <<"b", "r", "i", "e", "f">>, <<>>),
            command("commandDrop", <<"d", "e", "s", "c", "r", "i", "p", "t", "i", "o", "n">>, <<>>),
            command("commandDrop", <<"d", "e", "t", "a", "i", "l", "s">>, <<>>),
            command("commandReturn", <<"r", "e", "t", "u", "r", "n">>, <<"s">>),
            command("commandCapitalise", <<"v", "e", "r", "s", "i", "o", "n">>, <<>>),
            IF param.matched /\ nameEnd > param.end
            THEN [param EXCEPT !.name = SubSeq(string, param.end + 1, nameEnd),
                               !.end = LeadingFrom(string, {SP}, nameEnd + 1)]
            ELSE NoMatch,
            command("commandIgnore", <<"f", "i", "l", "e">>, <<>>) >>)

\* A mutant of atPrefix in which the Swift convention keeps the singular of
\* the Doxygen keyword.
SwiftReturn(group, value, name, swift) ==
    IF group = "commandParameter"
    THEN (IF swift THEN <<"-", " ", "P", "a", "r", "a", "m", "e", "t", "e", "r",
            " ">> ELSE <<"@">> \o lower(value) \o <<" ">>) \o name
            \o (IF swift THEN <<":">> ELSE <<>>) \o <<" ">>
    ELSE IF swift THEN <<"-", " ">> \o capitalize(value) \o <<":", " ">>
    ELSE <<"@">> \o lower(value) \o <<" ">>

\* OutputTree._at_command_hanging: the prefix that replaces the match of a
\* group other than commandIgnore.
atPrefix(group, value, name, swift) ==
    LET lowered == <<"@">> \o lower(value) \o <<" ">>
    IN  IF group = "commandParameter"
        THEN (IF swift THEN <<"-", " ", "P", "a", "r", "a", "m", "e", "t", "e", "r",
                " ">> ELSE lowered) \o name
                \o (IF swift THEN <<":">> ELSE <<>>) \o <<" ">>
        ELSE IF group = "commandDrop" THEN (IF swift THEN <<>> ELSE lowered)
        ELSE IF group = "commandCapitalise"
        THEN (IF swift THEN <<"-", " ">> \o capitalize(value) \o <<":", " ">> ELSE lowered)
        ELSE IF swift THEN <<"-", " ", "R", "e", "t", "u", "r", "n", "s", ":", " ">> ELSE lowered

\* OutputTree._at_command_hanging on an output element, of which hanging is
\* <<>> for no attribute. It returns the hanging indent, <<>> for None, and
\* changes the text of the element; warning is the element that it inserts.
at_command_hanging(element_, swift) ==
    IF element_.hanging = <<>>
    THEN [hanging |-> <<>>, text |-> element_.text, warning |-> FALSE]
    ELSE LET hanging == element_.hanging[1]
             match == atCommand(Drop(element_.text, hanging))
         IN  IF ~match.matched
             THEN [hanging |-> <<hanging>>, text |-> element_.text,
                   warning |-> startswith(element_.text, <<"@">>)]
             ELSE IF match.group = "commandIgnore"
             THEN [hanging |-> <<hanging>>, text |-> element_.text,
                   warning |-> FALSE]
             ELSE LET prefix_ == atPrefix(match.group, match.value, match.name, swift)
                  IN  [hanging |-> <<hanging + Len(prefix_)>>,
                       text |-> Take(element_.text, hanging) \o prefix_
                                \o Drop(Drop(element_.text, hanging), match.end),
                       warning |-> FALSE]

\* ------------------------------------------------- specification SpecAt

\* The keywords after an at sign: those of the pattern, and one that it does
\* not have.
AtKeywords ==
    {<<"b", "r", "i", "e", "f">>, <<"d", "e", "s", "c", "r", "i", "p", "t", "i", "o", "n">>,
            <<"d", "e", "t", "a", "i", "l", "s">>, <<"r", "e", "t", "u", "r", "n">>, <<"r",
                    "e", "t", "u", "r", "n", "s">>, <<"v", "e", "r", "s", "i", "o", "n">>,
     <<"p", "a", "r", "a", "m">>, <<"p", "a", "r", "a", "m", "e", "t", "e", "r">>, <<"f", "i",
             "l", "e">>, <<"s", "i", "n", "c", "e">>}

\* A keyword as it is, with an initial capital, and in capitals.
Cased(keyword, variant) ==
    IF variant = "lower" THEN keyword
    ELSE IF variant = "Capital" THEN capitalize(keyword)
    ELSE upper(keyword)

\* The text of a logical line that starts with an at-command: the hanging
\* indent as spaces, the command, spaces, a name for a parameter, and the rest.
AtLine(a) ==
    (IF a.hanging = <<>> THEN <<>> ELSE Spaces(a.hanging[1]))
        \o <<"@">> \o Cased(a.keyword, a.variant) \o Spaces(a.spaces)
        \o a.name \o (IF a.name = <<>> \/ a.tail = <<>> THEN <<>> ELSE <<SP>>)
        \o a.tail

AtArgs ==
    { a \in [keyword : AtKeywords, variant : {"lower", "Capital", "UPPER"},
             spaces : {1, 2}, name : {<<>>, <<"f", "o", "o">>, <<"B", "a", "r", "_", "1">>},
             tail : {<<>>, <<"x">>, <<"T", "h", "e", " ", "s", "u", "m">>},
             hanging : {<<>>, <<0>>, <<4>>}, swift : BOOLEAN] :
        (a.name # <<>>) <=> (lower(a.keyword) \in {<<"p", "a", "r", "a", "m">>, <<"p", "a",
                "r", "a", "m", "e", "t", "e", "r">>}) }

AtInit ==
    /\ pc = "at"
    /\ args = <<>>
    /\ returned = <<>>
    /\ FileIdle
    /\ TreeIdle
    /\ CanIdle
    /\ CacheIdle

\* OutputTree._at_command_hanging on one logical line of a comment.
AtCommandHanging(a) ==
    /\ pc = "at"
    /\ args' = a
    /\ returned' = at_command_hanging([text |-> AtLine(a), hanging |-> a.hanging], a.swift)
    /\ pc' = "hung"
    /\ UNCHANGED <<fileVars, treeVars, canVars, cacheVars>>

AtNext == \E a \in AtArgs : AtCommandHanging(a)

SpecAt == AtInit /\ [][AtNext]_vars

\* ------------------------------------------------------------ claim C13

\* The prefix that the at-command of a keyword is rewritten to.
Rewritten(keyword, name, swift) ==
    IF keyword \in {<<"p", "a", "r", "a", "m">>, <<"p", "a", "r", "a", "m", "e", "t", "e", "r">>}
    THEN (IF swift THEN <<"-", " ", "P", "a", "r", "a", "m", "e", "t", "e", "r",
            " ">> \o name \o <<":", " ">> ELSE <<"@", "p", "a", "r", "a", "m",
                    " ">> \o name \o <<" ">>)
    ELSE IF keyword \in {<<"r", "e", "t", "u", "r", "n">>, <<"r", "e", "t", "u", "r", "n", "s">>}
    THEN (IF swift THEN <<"-", " ", "R", "e", "t", "u", "r", "n", "s", ":", " ">> ELSE <<"@",
            "r", "e", "t", "u", "r", "n", " ">>)
    ELSE IF keyword = <<"v", "e", "r", "s", "i", "o", "n">>
    THEN (IF swift THEN <<"-", " ", "V", "e", "r", "s", "i", "o", "n", ":", " ">> ELSE <<"@",
            "v", "e", "r", "s", "i", "o", "n", " ">>)
    ELSE IF swift THEN <<>> ELSE <<"@">> \o keyword \o <<" ">>

RewrittenKeywords == AtKeywords \ {<<"f", "i", "l", "e">>, <<"s", "i", "n", "c", "e">>}

\* C13: an at-command at the start of a logical line is rewritten, with the
\* text after it kept: in the Doxygen convention to "@brief ",
\* "@description ", "@details ", "@return " for @return and @returns,
\* "@version ", and "@param NAME " for @param and @parameter; in the Swift
\* convention to nothing for brief, description and details, to "- Returns: ",
\* "- Version: " and "- Parameter NAME: ".
C13_AtCommandRewritten ==
    (pc = "hung" /\ args.hanging # <<>> /\ args.variant = "lower"
            /\ args.keyword \in RewrittenKeywords) =>
        /\ returned.text = Spaces(args.hanging[1])
                \o Rewritten(args.keyword, args.name, args.swift) \o args.tail
        /\ ~returned.warning

C13_Witness ==
    /\ pc = "hung"
    /\ args.keyword = <<"p", "a", "r", "a", "m", "e", "t", "e", "r">>
    /\ args.variant = "lower"
    /\ args.swift
    /\ args.hanging = <<4>>
    /\ returned.text = <<" ", " ", " ", " ", "-", " ", "P", "a", "r", "a", "m", "e", "t", "e",
            "r", " ", "f", "o", "o", ":", " ", "T", "h", "e", " ", "s", "u", "m">>

\* ------------------------------------------------------------ claim C14

\* C14: the keyword of an at-command is recognised in any case: the command
\* written with an initial capital or in capitals is rewritten as the command
\* in lower case is, and the name of a parameter keeps its case.
C14_KeywordInAnyCase ==
    (pc = "hung" /\ args.hanging # <<>> /\ args.variant # "lower"
            /\ args.keyword \in RewrittenKeywords) =>
        returned.text = Spaces(args.hanging[1])
            \o Rewritten(args.keyword, args.name, args.swift) \o args.tail

\* -------------------------------------------- specification SpecContinue

MaxText == 4

\* The texts that the continue pattern is searched in: every text of up to
\* MaxText characters of a comment line.
ContinueTexts ==
    UNION { [1..n -> {SP, "*", "/", "a", "\r", NL}] : n \in 0..MaxText }

ContinueInit ==
    /\ pc = "continue"
    /\ args = <<>>
    /\ returned = <<>>
    /\ FileIdle
    /\ TreeIdle
    /\ CanIdle
    /\ CacheIdle

\* CommentTree._match_continue on the text of a line element.
MatchContinue(text_) ==
    /\ pc = "continue"
    /\ args' = [text |-> text_]
    /\ returned' = commentContinue(text_)
    /\ pc' = "matched"
    /\ UNCHANGED <<fileVars, treeVars, canVars, cacheVars>>

ContinueNext == \E text_ \in ContinueTexts : MatchContinue(text_)

SpecContinue == ContinueInit /\ [][ContinueNext]_vars

\* ------------------------------------------------------------ claim C18

\* C18: the continue pattern classifies the text of a line in a comment by what
\* comes after its leading spaces: "*" and the end of the line is a leader
\* without margin; "*" and a space is a leader with a margin of one space, more
\* spaces being text; "*" and another character that is not a slash is a leader
\* without margin; the end of the line is no leader; another character is no
\* leader, the text starting there; and "*/" matches no alternative.
C18_ContinueClasses ==
    pc = "matched" =>
        LET line == args.text
            k == Leading(line, {SP})
            c == At(line, k + 1)
            d == At(line, k + 2)
            class(symbol, margin, after) ==
                /\ returned.matched
                /\ returned.indent = Spaces(k)
                /\ returned.symbol = symbol
                /\ returned.margin = margin
                /\ returned.after = after
        IN  IF c = "*" /\ d = "/" THEN ~returned.matched
            ELSE IF c = "*" /\ d = SP THEN class(<<"*">>, <<SP>>, Drop(line, k + 2))
            ELSE IF c = "*" THEN class(<<"*">>, <<>>, Drop(line, k + 1))
            ELSE class(<<>>, <<>>, Drop(line, k))

\* A leader with a margin of one space and a text that starts with a space.
C18_Witness ==
    /\ pc = "matched"
    /\ args.text = <<SP, "*", SP, SP>>
    /\ returned.matched
    /\ returned.margin = <<SP>>
    /\ returned.after = <<SP>>

\* ------------------------------------------------ specification SpecLine

MaxLine == 4

\* Every line of up to MaxLine characters, with and without its end of line,
\* and the lines of SourceLines.
ShortLines ==
    LET texts == UNION { [1..n -> {SP, "*", "/", "a"}] : n \in 0..MaxLine }
    IN  (texts \ {<<>>}) \cup { Append(t, NL) : t \in texts } \cup SourceLines

\* Doctor._overwrite_one on a file of one short line, alone or after a line
\* that starts a comment.
LineInit ==
    /\ \E line \in ShortLines : file \in { <<line>>, <<<<"/", "*", "*", NL>>, line>> }
    /\ disk = OnDisk(file)
    /\ dryRun \in BOOLEAN
    /\ extract \in BOOLEAN
    /\ pc = "start"
    /\ lineNo = 0
    /\ lineElement = NoElem
    /\ inComment = FALSE
    /\ commentElement = NoElem
    /\ elements = <<>>
    /\ written = 0
    /\ temp = <<>>
    /\ TreeIdle
    /\ CanIdle
    /\ CacheIdle
    /\ CallIdle

SpecLine == LineInit /\ [][Next]_vars

\* ------------------------------------------------------------ claim C17

\* The line elements that line_star_slash has yielded, in order, those of the
\* comment blocks and of the block that is open among them, and the line
\* element that it still holds.
RECURSIVE Flat(_, _)
Flat(es, i) ==
    IF i > Len(es) THEN <<>>
    ELSE (IF IsComment(es[i]) THEN es[i].lines ELSE <<es[i]>>) \o Flat(es, i + 1)

Yielded ==
    Flat(elements, 1)
        \o (IF commentElement.tag = "none" THEN <<>> ELSE commentElement.lines)
        \o (IF lineElement.tag = "none" THEN <<>> ELSE <<lineElement>>)

\* The characters of a line element: of its indent, symbol, margin, text and
\* end of line when it is part of a comment, of its text when it is not.
Pieces(e) ==
    IF e.part = "none" THEN e.text
    ELSE e.indent \o e.symbol \o e.margin \o e.text \o e.eol

\* The characters of the elements of line n, in order.
RECURSIVE Joined(_, _, _)
Joined(es, n, i) ==
    IF i > Len(es) THEN <<>>
    ELSE (IF es[i].number = n THEN Pieces(es[i]) ELSE <<>>) \o Joined(es, n, i + 1)

\* C17: the indent, symbol, margin, text and end of line of the elements that
\* a line gives (a start or a continue, then a finish), and then what is left of
\* the line as a plain line, are in order the line with its tabs expanded; the
\* text of an element never ends in a CR or LF.
C17_LineRoundTrip ==
    pc # "failed" =>
        /\ \A n \in 1..lineNo : Joined(Yielded, n, 1) = expandtabs(file[n], tabSize)
        /\ \A i \in DOMAIN Yielded :
            LET e == Yielded[i]
            IN  e.part # "none" => (e.text = <<>> \/ e.text[Len(e.text)] \notin {NL, "\r"})

\* A line that starts and finishes a comment, with more after it.
C17_Witness ==
    /\ pc = "tree"
    /\ file = << <<"/", "*", "*", SP, "a", SP, "*", "/", "a", NL>> >>
    /\ Len(Yielded) = 3
    /\ Yielded[1].part = "start" /\ Yielded[1].text = <<"a", SP>>
    /\ Yielded[2].part = "finish"
    /\ Yielded[3] = Plain(1, <<"a", NL>>)

\* ---------------------------------------------- specification SpecRender

MaxSpans == 2

\* The span constructs that the inline lexer hands to the renderer, by the
\* name of the renderer method.
SpanMethods ==
    {"autolink", "codespan", "double_emphasis", "emphasis", "image", "linebreak",
     "newline", "link", "strikethrough", "text", "inline_html", "doc_uri"}

\* The span methods of TreeRenderer: the elements that the method returns, or
\* the error that it raises. link is defined without self, so that the call
\* of the lexer has an argument too many.
TreeRenderer(method) ==
    IF method \in {"autolink", "image", "linebreak", "strikethrough", "inline_html"}
    THEN [raised |-> "NotImplementedError", elements |-> <<>>]
    ELSE IF method = "link" THEN [raised |-> "TypeError", elements |-> <<>>]
    ELSE [raised |-> "none",
          elements |->
            IF method = "codespan" THEN <<codespan>>
            ELSE IF method = "double_emphasis" THEN <<double_emphasis(<<text>>)>>
            ELSE IF method = "emphasis" THEN <<emphasis(<<text>>)>>
            ELSE IF method = "text" THEN <<text>>
            ELSE IF method = "doc_uri" THEN <<doc_uri("A")>>
            ELSE <<>>]

\* TreeParser.__call__ on a paragraph of up to MaxSpans span constructs: args
\* is what is left of them, returned what has been rendered.
RenderInit ==
    /\ pc = "render"
    /\ args \in UNION { [1..n -> SpanMethods] : n \in 1..MaxSpans }
    /\ returned = <<>>
    /\ FileIdle
    /\ TreeIdle
    /\ CanIdle
    /\ CacheIdle

\* The inline lexer renders the next span construct.
RenderSpan ==
    /\ pc = "render"
    /\ args # <<>>
    /\ LET rendered == TreeRenderer(Head(args))
       IN  IF rendered.raised = "none"
           THEN /\ returned' = returned \o rendered.elements
                /\ args' = Tail(args)
                /\ pc' = "render"
           ELSE /\ returned' = rendered.raised
                /\ args' = args
                /\ pc' = "failed"
    /\ UNCHANGED <<fileVars, treeVars, canVars, cacheVars>>

\* TreeRenderer.paragraph, and the markdown element around it.
RenderParagraph ==
    /\ pc = "render"
    /\ args = <<>>
    /\ returned' = markdown(<<paragraph(returned)>>)
    /\ pc' = "rendered"
    /\ UNCHANGED <<args, fileVars, treeVars, canVars, cacheVars>>

RenderNext == RenderSpan \/ RenderParagraph

SpecRender == RenderInit /\ [][RenderNext]_vars

\* ------------------------------------------------------------ claim C19

\* C19: a bare autolink and raw inline HTML are span constructs that the
\* parser supports: the renderer raises no error on them and goes on to the
\* next construct.
C19_AutolinkAndInlineHtml ==
    pc = "failed" => Head(args) \notin {"autolink", "inline_html"}

\* ------------------------------------------------------ the serializer

\* textwrap.TextWrapper._split on a text without tabs and without a hyphen
\* inside a word: the runs of spaces and the runs of other characters.
RECURSIVE split_chunks(_)
split_chunks(string) ==
    IF string = <<>> THEN <<>>
    ELSE LET n == IF string[1] = SP THEN Leading(string, {SP})
                  ELSE LeadingFrom(string, Range(string) \ {SP}, 1)
         IN  <<Take(string, n)>> \o split_chunks(Drop(string, n))

RECURSIVE join(_)
join(chunks) == IF chunks = <<>> THEN <<>> ELSE Head(chunks) \o join(Tail(chunks))

\* `chunk.strip() == ''`
Blank(chunk) == Range(chunk) \subseteq {SP}

\* The inner loop of _wrap_chunks: how many of the chunks, from the first, go
\* on a line that has `room` columns left.
RECURSIVE fitting(_, _)
fitting(chunks, room) ==
    IF chunks # <<>> /\ Len(Head(chunks)) <= room
    THEN 1 + fitting(Tail(chunks), room - Len(Head(chunks)))
    ELSE 0

\* textwrap.TextWrapper._wrap_chunks with initial_indent '', drop_whitespace
\* and break_long_words: the lines from the chunks that are left, after the
\* lines that there are.
RECURSIVE wrap_chunks(_, _, _, _)
wrap_chunks(chunks, lines, width, subsequent) ==
    IF chunks = <<>> THEN lines
    ELSE LET indent == IF lines = <<>> THEN <<>> ELSE subsequent
             room == width - Len(indent)
             kept == IF Blank(Head(chunks)) /\ lines # <<>> THEN Tail(chunks) ELSE chunks
             n == fitting(kept, room)
             fitted == Take(kept, n)
             left == Drop(kept, n)
             long == left # <<>> /\ Len(Head(left)) > room
             \* _handle_long_word
             space_left == IF room < 1 THEN 1 ELSE room - Len(join(fitted))
             cur_line == IF long THEN Append(fitted, Take(Head(left), space_left)) ELSE fitted
             rest == IF long THEN <<Drop(Head(left), space_left)>> \o Tail(left) ELSE left
             stripped == IF cur_line # <<>> /\ Blank(cur_line[Len(cur_line)])
                         THEN Take(cur_line, Len(cur_line) - 1) ELSE cur_line
         IN  wrap_chunks(rest,
                 IF stripped = <<>> THEN lines ELSE Append(lines, indent \o join(stripped)),
                 width, subsequent)

\* textwrap.wrap(string, width=width, subsequent_indent=subsequent,
\* drop_whitespace=True); width is <<>> for None, which the comparison with 0
\* at the start of _wrap_chunks raises a TypeError on.
wrap(string, width, subsequent) ==
    IF width = <<>> THEN [raised |-> "TypeError", lines |-> <<>>]
    ELSE IF width[1] <= 0 THEN [raised |-> "ValueError", lines |-> <<>>]
    ELSE [raised |-> "none",
          lines |-> wrap_chunks(split_chunks(string), <<>>, width[1], subsequent)]

\* OutputTree._markdown_outputs and _indent_outputs on a markdown element of
\* paragraphs of plain text: a logical line for each paragraph and an empty
\* one between two paragraphs, the last one a bare line.
indent_outputs(paragraphs) ==
    [i \in 1..(2 * Len(paragraphs) - 1) |->
        [text |-> IF i % 2 = 1 THEN paragraphs[(i + 1) \div 2] ELSE <<>>,
         hanging |-> <<0>>,
         bareLine |-> i = 2 * Len(paragraphs) - 1]]

\* The physical lines of one logical line in _comment_outputs, joined by
\* '\n': a wrapped line that is shorter than the subsequent indent is the
\* subsequent indent, and no wrapped line at all is one empty line.
physical_lines(wrapped, subsequent) ==
    LET lines == IF wrapped = <<>> THEN << <<>> >> ELSE wrapped
    IN  join([k \in DOMAIN lines |->
                (IF k > 1 THEN <<NL>> ELSE <<>>)
                    \o (IF Len(lines[k]) < Len(subsequent) THEN subsequent ELSE lines[k])])

\* The body of the loop of _comment_outputs for one output after
\* _at_command_hanging: the text as it is when there is no hanging indent,
\* else the lines that textwrap.wrap makes of it.
wrapped_output(prefix_, hung, maxWidth) ==
    IF hung.hanging = <<>> THEN [raised |-> "none", yielded |-> prefix_ \o hung.text]
    ELSE IF maxWidth = <<>> \/ maxWidth[1] <= 0
    THEN [raised |-> wrap(<<>>, maxWidth, <<>>).raised, yielded |-> <<>>]
    ELSE [raised |-> "none",
          yielded |-> physical_lines(
              wrap(prefix_ \o hung.text, maxWidth, prefix_ \o Spaces(hung.hanging[1])).lines,
              prefix_ \o Spaces(hung.hanging[1]))]

\* What the loop of OutputTree._comment_outputs yields for the outputs from
\* index i on, after what it has yielded, and the error that it raises.
RECURSIVE comment_outputs_from(_, _, _, _, _, _)
comment_outputs_from(outputs, i, swift, indentStart, maxWidth, yielded) ==
    IF i > Len(outputs) THEN [raised |-> "none", yielded |-> yielded]
    ELSE LET one == wrapped_output(
                 IF i = 1 /\ ~swift THEN Spaces(indentStart) \o <<"/", "*", "*", " ">>
                 ELSE Spaces(indentStart + 1) \o (IF swift THEN <<>> ELSE <<"*", " ">>),
                 at_command_hanging(outputs[i], swift), maxWidth)
         IN  IF one.raised # "none" THEN [raised |-> one.raised, yielded |-> yielded]
             ELSE comment_outputs_from(outputs, i + 1, swift, indentStart, maxWidth,
                     yielded \o one.yielded
                         \o (IF outputs[i].bareLine THEN <<>> ELSE <<NL>>))

\* The end of _comment_outputs: the closing line, unless an error was raised.
comment_outputs_end(body, indentStart) ==
    IF body.raised # "none" THEN body
    ELSE [body EXCEPT !.yielded = @ \o <<NL>> \o Spaces(indentStart + 1) \o <<"*", "/">>]

\* OutputTree._comment_outputs: everything that it yields for a comment, which
\* write_lines writes.
comment_outputs(outputs, swift, indentStart, maxWidth) ==
    comment_outputs_end(
        comment_outputs_from(outputs, 1, swift, indentStart, maxWidth,
            IF swift \/ outputs = <<>>
            THEN Spaces(indentStart) \o <<"/", "*", "*">>
                    \o (IF swift THEN <<NL>> ELSE <<SP>>)
            ELSE <<>>),
        indentStart)

\* ------------------------------------------------ specification SpecOut

MaxParagraphs == 2

\* The text of a paragraph of a comment, its white space collapsed.
ParagraphTexts ==
    { <<"a">>,
      <<"a", "a", "a", "a", " ", "b", "b", "b", "b", " ", "c", "c", "c", "c", " ",
          "d", "d", "d", "d">>,
      <<"a", "a", " ", "b", "b", "b", "b", "b", "b", "b", "b", "b", "b", "b", "b",
          "b", "b", "b", "b", "b", "b">>,
      <<"@", "p", "a", "r", "a", "m", " ", "f", "o", "o", " ", "d", "d", " ", "e",
          "e">>,
      <<"@", "r", "e", "t", "u", "r", "n", " ", "b", "b">> }

\* OutputTree._maxWidth, <<>> for None, which it is when --width is not
\* given or is not positive.
Widths == {<<>>, <<20>>, <<30>>}

OutInit ==
    /\ pc = "output"
    /\ args \in [paragraphs : UNION { [1..n -> ParagraphTexts] : n \in 1..MaxParagraphs },
                 swift : BOOLEAN, indentStart : {0, 2}, maxWidth : Widths]
    /\ returned = <<>>
    /\ FileIdle
    /\ TreeIdle
    /\ CanIdle
    /\ CacheIdle

\* OutputTree.write_lines on a comment of paragraphs of plain text. A
\* TypeError ends the program: default_main catches ValueError and OSError.
WriteComment ==
    /\ pc = "output"
    /\ returned' = <<comment_outputs(indent_outputs(args.paragraphs), args.swift,
                                     args.indentStart, args.maxWidth)>>
    /\ pc' = IF returned'[1].raised = "none" THEN "written" ELSE "failed"
    /\ UNCHANGED <<args, fileVars, treeVars, canVars, cacheVars>>

\* The physical lines of a text, without their end of line.
RECURSIVE splitlines(_)
splitlines(string) ==
    IF string = <<>> THEN <<>>
    ELSE LET n == LeadingFrom(string, Range(string) \ {NL}, 1)
         IN  <<Take(string, n)>> \o splitlines(Drop(string, n + 1))

\* CommentTree.read_lines and comment_blocks on the lines of a file, from line
\* n on: the elements that comment_blocks yields, or the AssertionError of
\* line_star_slash.
RECURSIVE read_comments(_, _, _, _, _)
read_comments(lines, n, le, inC, state) ==
    IF le.tag = "none" /\ n = Len(lines)
    THEN [raised |-> "none", out |-> comment_blocks_end(state.open, state.out)]
    ELSE LET reading == le.tag = "none"
             step == line_star_slash(
                         IF reading THEN line_expand_tabs(lines, n + 1) ELSE le, inC)
         IN  IF step.raised THEN [raised |-> "AssertionError", out |-> <<>>]
             ELSE read_comments(lines, IF reading THEN n + 1 ELSE n, step.lineElement,
                                step.inComment, comment_blocks_all(state, step.yields, 1))

\* A mutant of _shuffle_lines that clears the leader and the margin of every
\* continue line and puts them nowhere.
ClearLeader(comment) ==
    [indentStart |-> Len(comment.lines[1].indent),
     lines |-> [i \in DOMAIN comment.lines |->
                  IF comment.lines[i].part = "continue"
                  THEN [comment.lines[i] EXCEPT !.symbol = <<>>, !.margin = <<>>]
                  ELSE comment.lines[i]]]

\* CommentTree._shuffle_comment: the indent of the start line, and, when a line
\* of the comment has no symbol, _shuffle_lines, which makes text of the symbol
\* and margin of every continue line and of its indent beyond indentStart + 1
\* (of none of it when the indent is no longer than that).
shuffle_comment(comment) ==
    LET indentStart == Len(comment.lines[1].indent)
        allHaveSymbol == \A i \in DOMAIN comment.lines : comment.lines[i].symbol # <<>>
        shuffled(line) ==
            LET kept == IF Len(line.indent) > indentStart + 1
                        THEN indentStart + 1 ELSE Len(line.indent)
            IN  [line EXCEPT !.indent = Take(@, kept),
                             !.symbol = <<>>,
                             !.margin = <<>>,
                             !.text = Drop(line.indent, kept) \o line.symbol
                                        \o line.margin \o @]
    IN  [indentStart |-> indentStart,
         lines |-> [i \in DOMAIN comment.lines |->
                      IF ~allHaveSymbol /\ comment.lines[i].part = "continue"
                      THEN shuffled(comment.lines[i]) ELSE comment.lines[i]]]

\* CommentTree.extract: the text and the end of line of every line of the
\* comment, joined.
extracted(lines) == join([i \in DOMAIN lines |-> lines[i].text \o lines[i].eol])

\* `re.sub(r'\s+', ' ', text)` of _text_outputs.
RECURSIVE collapse(_)
collapse(string) ==
    IF string = <<>> THEN <<>>
    ELSE IF string[1] \in WhiteSpace
    THEN <<SP>> \o collapse(Drop(string, Leading(string, WhiteSpace)))
    ELSE <<string[1]>> \o collapse(Tail(string))

\* TreeParser.__call__ and _text_outputs on an extract of plain words: the
\* lines up to an empty line are a paragraph, whose text is the words with
\* their white space collapsed. (The Markdown parser itself is mistune.)
RECURSIVE paragraphs_from(_, _, _, _)
paragraphs_from(lines, i, current, out) ==
    LET closed == IF strip(current) = <<>> THEN out
                  ELSE Append(out, collapse(strip(current)))
    IN  IF i > Len(lines) THEN closed
        ELSE IF strip(lines[i]) = <<>> THEN paragraphs_from(lines, i + 1, <<>>, closed)
        ELSE paragraphs_from(lines, i + 1, current \o lines[i] \o <<NL>>, out)

\* comments_to_outputs on one comment: the outputs of the paragraphs of its
\* extract, at the indent of its start line.
comment_to_outputs(comment, swift, maxWidth) ==
    comment_outputs(
        indent_outputs(paragraphs_from(splitlines(extracted(comment.lines)), 1, <<>>, <<>>)),
        swift, comment.indentStart, maxWidth)

\* What write_lines has written after the outputs `one` of a comment.
written_after(wrote, one) == [one EXCEPT !.yielded = wrote \o @]

\* Processing.comments_to_outputs and OutputTree.write_lines on the elements
\* found in a file: for a comment its outputs, for a line its text.
RECURSIVE outputs_from(_, _, _, _, _)
outputs_from(found, i, swift, maxWidth, wrote) ==
    IF i > Len(found) THEN [raised |-> "none", yielded |-> wrote]
    ELSE LET next == IF IsComment(found[i])
                     THEN written_after(wrote,
                              comment_to_outputs(shuffle_comment(found[i]), swift, maxWidth))
                     ELSE [raised |-> "none", yielded |-> wrote \o found[i].text]
         IN  IF next.raised # "none" THEN next
             ELSE outputs_from(found, i + 1, swift, maxWidth, next.yielded)

\* The lines of a file that holds a text, each with its end of line.
file_lines(lines) == [k \in DOMAIN lines |-> Append(lines[k], NL)]

\* Processing.path_to_comments, then comments_to_outputs, on what
\* CommentTree.read finds in a file.
found_outputs(found, swift, maxWidth) ==
    IF found.raised # "none" THEN [raised |-> found.raised, yielded |-> <<>>]
    ELSE outputs_from(found.out, 1, swift, maxWidth, <<>>)

\* Doctor._overwrite_one again, on the file that the first run has written:
\* the comment at the indent of its start line and the end of its last line.
Rerun ==
    /\ pc = "written"
    /\ Len(returned) = 1
    /\ ~args.swift
    /\ returned' = Append(returned,
           found_outputs(
               read_comments(file_lines(splitlines(returned[1].yielded)), 0, NoElem, FALSE,
                             [open |-> NoElem, out |-> <<>>]),
               args.swift, args.maxWidth))
    /\ pc' = IF returned'[2].raised = "none" THEN "rewritten" ELSE "failed"
    /\ UNCHANGED <<args, fileVars, treeVars, canVars, cacheVars>>

OutNext == WriteComment \/ Rerun

SpecOut == OutInit /\ [][OutNext]_vars

\* ------------------------------------------------------------ claim C20

\* C20: with no maximum width (maxWidth is None), the serializer ends without
\* an error and writes every logical line of the comment on one physical line:
\* the opening line has the first logical line in the Doxygen convention and
\* none in the Swift convention, and the closing line comes last.
C20_NoWidthNoWrap ==
    (pc # "output" /\ args.maxWidth = <<>>) =>
        /\ returned[1].raised = "none"
        /\ Len(splitlines(returned[1].yielded))
            = 2 * Len(args.paragraphs) + (IF args.swift THEN 1 ELSE 0)

\* ------------------------------------------------------------ claim C15

\* C15: in a comment that the serializer has written, the first physical line
\* has the opener at indentStart, the last one is the closer after indentStart
\* + 1 spaces, and every line between them, the continuation lines of a wrapped
\* logical line too, starts with indentStart + 1 spaces and then "* " in the
\* Doxygen convention, and no "*" in the Swift convention; no line but the
\* first has the opener.
C15_LeaderOnEveryLine ==
    pc = "written" =>
        LET lines == splitlines(returned[1].yielded)
            lead == Spaces(args.indentStart + 1)
        IN  /\ startswith(lines[1], Spaces(args.indentStart) \o <<"/", "*", "*">>)
            /\ lines[Len(lines)] = lead \o <<"*", "/">>
            /\ \A k \in 2..(Len(lines) - 1) :
                /\ startswith(lines[k], lead \o (IF args.swift THEN <<>> ELSE <<"*", " ">>))
                /\ args.swift => At(lines[k], Len(lead) + 1) # "*"
            /\ \A k \in 2..Len(lines) :
                ~startswith(Drop(lines[k], Leading(lines[k], {SP})), <<"/", "*", "*">>)

\* ------------------------------------------------------------ claim C16

DocPrefix == <<"d", "o", "c", ":", "/", "/">>

\* The netloc of a uri, which is nothing, ".", ".." or something else.
netloc_of(chars) ==
    IF chars = <<>> THEN "" ELSE IF chars = <<".">> THEN "."
    ELSE IF chars = <<".", ".">> THEN ".." ELSE "other"

\* The names of the path of a uri, each after its "/".
RECURSIVE path_names(_)
path_names(chars) ==
    IF chars = <<>> THEN <<>>
    ELSE LET n == LeadingFrom(Tail(chars), Range(chars) \ {"/"}, 1)
         IN  <<SubSeq(chars, 2, n + 1)>> \o path_names(Drop(chars, n + 1))

\* urlparse of a reference doc://NETLOC/PATH#NAME: the netloc ends at the
\* first "/" or "#", the path at the "#", and the rest is the fragment.
urlparse(uri) ==
    LET rest == Drop(uri, Len(DocPrefix))
        located == LeadingFrom(rest, Range(rest) \ {"/", "#"}, 1)
        pathed == LeadingFrom(rest, Range(rest) \ {"#"}, 1)
    IN  Uri("doc", netloc_of(Take(rest, located)),
            path_names(SubSeq(rest, located + 1, pathed)), Drop(rest, pathed + 1))

\* What a reference gives way to: the content of the fragment that
\* _get_content has found for it, or the error that it has raised.
resolved_word(got, resolved) ==
    IF got.raised # "none" THEN [raised |-> got.raised, text |-> resolved]
    ELSE [raised |-> "none", text |-> resolved \o join(got.cached[1].contentLines)]

\* DocGetter.read on the words of the extract of a comment, from word i on:
\* every reference gives way to the content of its fragment, and the first
\* one that _get_content finds no fragment for raises its error.
RECURSIVE resolve_words(_, _, _, _)
RECURSIVE resolve_next(_, _, _, _)
resolve_next(chunks, i, fragments_, next) ==
    IF next.raised # "none" THEN next ELSE resolve_words(chunks, i, fragments_, next.text)

resolve_words(chunks, i, fragments_, resolved) ==
    IF i > Len(chunks) THEN [raised |-> "none", text |-> resolved]
    ELSE resolve_next(chunks, i + 1, fragments_,
             IF startswith(chunks[i], DocPrefix)
             THEN resolved_word(
                      get_content(urlparse(chunks[i]), SourcePath, <<>>, fragments_, <<>>),
                      resolved)
             ELSE [raised |-> "none", text |-> resolved \o chunks[i]])

\* The outputs of a comment whose references have been resolved, or the error
\* that the resolution raised.
resolved_outputs(resolved, indentStart, swift, maxWidth) ==
    IF resolved.raised # "none" THEN [raised |-> resolved.raised, yielded |-> <<>>]
    ELSE comment_outputs(
             indent_outputs(paragraphs_from(splitlines(resolved.text), 1, <<>>, <<>>)),
             swift, indentStart, maxWidth)

\* Processing.comments_to_outputs on one comment, with the getter of the job.
comment_injected(comment, fragments_, swift, maxWidth) ==
    resolved_outputs(
        resolve_words(split_chunks(extracted(comment.lines)), 1, fragments_, <<>>),
        comment.indentStart, swift, maxWidth)

\* Processing.comments_to_outputs and OutputTree.write_lines on the elements
\* found in a file, from element i on, after what has been written to the
\* temporary file.
RECURSIVE injected_from(_, _, _, _, _, _)
injected_from(found, i, fragments_, swift, maxWidth, wrote) ==
    IF i > Len(found) THEN [raised |-> "none", yielded |-> wrote]
    ELSE LET next == IF IsComment(found[i])
                     THEN written_after(wrote,
                              comment_injected(shuffle_comment(found[i]), fragments_,
                                               swift, maxWidth))
                     ELSE [raised |-> "none", yielded |-> wrote \o found[i].text]
         IN  IF next.raised # "none" THEN next
             ELSE injected_from(found, i + 1, fragments_, swift, maxWidth, next.yielded)

\* The end of Doctor._overwrite_one: the temporary file is copied over the
\* original, unless in a dry run; an error that was raised before has left
\* the original as it was.
overwritten(original, dry, wrote) ==
    [raised |-> wrote.raised,
     disk |-> IF wrote.raised # "none" THEN original ELSE copy(dry, original, wrote.yielded)]

\* Processing.path_to_comments, then comments_to_outputs with the getter of
\* the job, on what CommentTree.read finds in a file.
found_injected(found, fragments_, swift, maxWidth) ==
    IF found.raised # "none" THEN [raised |-> found.raised, yielded |-> <<>>]
    ELSE injected_from(found.out, 1, fragments_, swift, maxWidth, <<>>)

\* Doctor._overwrite_one on the lines of a source file in injection mode: the
\* error that it raises, and what is at report.path afterwards.
overwrite_one(lines, dry, fragments_, maxWidth) ==
    overwritten(join(lines), dry,
        found_injected(
            read_comments(lines, 0, NoElem, FALSE, [open |-> NoElem, out |-> <<>>]),
            fragments_, FALSE, maxWidth))

\* The reports that main has got after _overwrite_one has ended: one more,
\* unless it raised.
yield_report(reports, one) == IF one.raised = "none" THEN Append(reports, one) ELSE reports

\* ---------------------------------------------- specification SpecAll

MaxFiles == 3

\* The source files of an invocation: without a comment, with a comment of
\* plain words, with a comment that refers to a fragment that is in the cache,
\* and with one that refers to a fragment that is not.
InputFiles ==
    { << <<"a">>, <<"b">> >> ,
      << <<"/", "*", "*", " ", "a", " ", "*", "/">> >>,
      << <<"/", "*", "*", " ", "a", " ", "d", "o", "c", ":", "/", "/", "#", "A", " ", "*",
              "/">>, <<"a">> >>,
      << <<"/", "*", "*", " ", "d", "o", "c", ":", "/", "/", "#", "Z", " ", "*", "/">>, <<"a">> >> }

\* The cache after `--load`: the fragments of one documentation file.
LoadedFragments ==
    load_file(Up, << <<"#", "A">>, <<"a", "a">>, <<"#">> >>, <<>>, <<>>).cachedFragments

\* Doctor.overwrite_all, called by main with the inputs of the command line:
\* args holds the files as they are before the run, returned the reports that
\* have been yielded, each with what is on disk at its path.
AllInit ==
    /\ pc = "all"
    /\ args \in [paths : SeqsUpTo({ [k \in DOMAIN f |-> Append(f[k], NL)] : f \in InputFiles },
                                  MaxFiles),
                 dryRun : BOOLEAN]
    /\ returned = <<>>
    /\ FileIdle
    /\ TreeIdle
    /\ CanIdle
    /\ CacheIdle

\* One pass of the loop of Doctor._overwrite_all over a path that is a file:
\* _overwrite_one, then the report is yielded to main. There is no try
\* statement in the loop, in overwrite_all or in main: an error of
\* _overwrite_one ends the generators and main.
OverwriteOne ==
    /\ pc = "all"
    /\ Len(returned) < Len(args.paths)
    /\ returned' = yield_report(returned,
           overwrite_one(args.paths[Len(returned) + 1], args.dryRun, LoadedFragments,
                         <<30>>))
    /\ pc' = IF Len(returned') > Len(returned) THEN "all" ELSE "failed"
    /\ UNCHANGED <<args, fileVars, treeVars, canVars, cacheVars>>

\* The end of the loop of main over the reports: the report of the job is
\* written and main returns 0.
JobReport ==
    /\ pc = "all"
    /\ Len(returned) = Len(args.paths)
    /\ pc' = "reported"
    /\ UNCHANGED <<args, returned, fileVars, treeVars, canVars, cacheVars>>

AllNext == OverwriteOne \/ JobReport

SpecAll == AllInit /\ [][AllNext]_vars

\* ------------------------------------------------------------ claim C21

\* C21: when the processing of an input file ends in a fatal error, that file
\* is as it was and every other input file of the invocation is processed:
\* when the run has ended, by the report of the job or by the error, every
\* input file but the failed one has its report.
C21_FailedFileDoesNotStopTheRun ==
    pc = "failed" => Len(returned) + 1 = Len(args.paths)

\* ------------------------------------------------------------ claim C22

\* C22: every comment block that the segmenter has yielded is one start
\* element, then continue elements, then one finish element, in the order of
\* the lines of the input.
C22_BlockShape ==
    \A i \in DOMAIN elements :
        IsComment(elements[i]) =>
            LET lines == elements[i].lines
            IN  /\ Len(lines) >= 2
                /\ lines[1].part = "start"
                /\ lines[Len(lines)].part = "finish"
                /\ \A k \in 2..(Len(lines) - 1) : lines[k].part = "continue"
                /\ \A k \in 2..Len(lines) : lines[k - 1].number <= lines[k].number

\* ------------------------------------------ specification SpecShuffle

MaxContinue == 2

\* The lines of a comment: a start line at indent 0 or 2, continue lines with
\* and without a leader at several indents, and a finish line.
StartLines == { <<"/", "*", "*">>, <<" ", " ", "/", "*", "*", " ", "a">> }
ContinueLines == { <<" ", "*", " ", "a">>, <<"*", " ", "a">>, <<" ", " ", " ", " ", "*", " ",
        "a">>, <<" ", " ", " ", "a">>, <<" ", " ", " ", " ", " ", "x">>, <<" ", " ", "*",
                "a">>, <<>> }
FinishLines == { <<" ", "*", "/">>, <<" ", " ", " ", "b", " ", "*", "/">> }

\* The comment element that comment_blocks yields for the lines of a comment.
BlockOf(lines) ==
    read_comments(file_lines(lines), 0, NoElem, FALSE, [open |-> NoElem, out |-> <<>>]).out[1]

\* manipulate_comment_lines gets a comment element from comment_blocks.
ShuffleInit ==
    /\ pc = "shuffle"
    /\ \E first \in StartLines, last \in FinishLines :
       \E middle \in UNION { [1..n -> ContinueLines] : n \in 0..MaxContinue } :
           args = BlockOf(<<first>> \o middle \o <<last>>)
    /\ returned = <<>>
    /\ FileIdle
    /\ TreeIdle
    /\ CanIdle
    /\ CacheIdle

\* CommentTree.manipulate_comment_lines on the comment: _shuffle_comment.
ShuffleComment ==
    /\ pc = "shuffle"
    /\ returned' = shuffle_comment(args)
    /\ pc' = "shuffled"
    /\ UNCHANGED <<args, fileVars, treeVars, canVars, cacheVars>>

ShuffleNext == ShuffleComment

SpecShuffle == ShuffleInit /\ [][ShuffleNext]_vars

\* ------------------------------------------------------------ claim C23

\* Everything of a line of a comment, in the order of the line.
Content(line) == line.indent \o line.symbol \o line.margin \o line.text \o line.eol

\* C23: the shuffle changes no content. In a block with a line without a
\* leader, every continue line has the same indent + leader + margin + text as
\* before, no leader, no margin and an indent of indentStart + 1 at most, and
\* the start and the finish are as they were; in a block where every line has
\* a leader every line is as it was.
C23_ShuffleKeepsContent ==
    pc = "shuffled" =>
        LET before == args.lines
            after == returned.lines
        IN  /\ DOMAIN after = DOMAIN before
            /\ returned.indentStart = Len(before[1].indent)
            /\ IF \E i \in DOMAIN before : before[i].symbol = <<>>
               THEN \A i \in DOMAIN before :
                       IF before[i].part = "continue"
                       THEN /\ Content(after[i]) = Content(before[i])
                            /\ after[i].eol = before[i].eol
                            /\ after[i].symbol = <<>>
                            /\ after[i].margin = <<>>
                            /\ Len(after[i].indent) <= returned.indentStart + 1
                            /\ after[i].part = "continue"
                            /\ after[i].number = before[i].number
                       ELSE after[i] = before[i]
               ELSE after = before

\* A block with a line without a leader and a continue line whose leader,
\* margin and indent beyond indentStart + 1 have become text.
C23_Witness ==
    /\ pc = "shuffled"
    /\ \E i \in DOMAIN args.lines :
        /\ args.lines[i].part = "continue"
        /\ args.lines[i].symbol = <<"*">>
        /\ args.lines[i].margin = <<SP>>
        /\ Len(args.lines[i].indent) > returned.indentStart + 1
        /\ returned.lines[i].symbol = <<>>
        /\ Len(returned.lines[i].text) > Len(args.lines[i].text) + 2

\* ------------------------------------------------------------ claim C24

\* lift_singles has come to the end of its loop: nothing is found.
SinglesLifted == pc = "singles" /\ findall(tree, "contentLines", "1") = <<>>

\* The tags of some elements, and the uris of the references among them.
Shape(kids) == [i \in DOMAIN kids |-> <<kids[i].tag, kids[i].uri>>]

\* C24: when lift_singles is done, a reference whose fragment has one content
\* line that parses to one paragraph has the children of that paragraph, in
\* their order, as its own children, all of which the parent of the reference
\* can contain, so that lift_trees puts them there; and a reference whose
\* fragment has more lines has the block elements of the parse as children.
C24_SingleLineLifted ==
    SinglesLifted =>
        \A path \in Range(DocUriPaths) :
            LET node == NodeAt(tree, path)
                cache == library[node.uri]
                single == /\ cache.contentLines = "1"
                          /\ Len(cache.parsed) = 1
                          /\ cache.parsed[1].tag = "paragraph"
            IN  /\ single =>
                    /\ node.contentLines = "lifted"
                    /\ Shape(node.kids) = Shape(cache.parsed[1].kids)
                    /\ \A i \in DOMAIN node.kids :
                        can_contain(NodeAt(tree, Take(path, Len(path) - 1)), node.kids[i])
                            = "True"
                /\ cache.contentLines \notin {"0", "1"} =>
                    /\ node.contentLines = cache.contentLines
                    /\ Shape(node.kids) = Shape(cache.parsed)

\* A reference to a fragment of one line has the text and the reference of
\* its paragraph as children, and that reference has the two paragraphs of a
\* fragment of three lines.
C24_Witness ==
    /\ SinglesLifted
    /\ \E path \in Range(DocUriPaths) :
        /\ NodeAt(tree, path).contentLines = "lifted"
        /\ Len(NodeAt(tree, path).kids) = 3
        /\ NodeAt(tree, path).kids[2].tag = "doc_uri"
        /\ NodeAt(tree, path).kids[2].contentLines = "3"
        /\ Shape(NodeAt(tree, path).kids[2].kids)
            = <<<<"paragraph", "none">>, <<"paragraph", "none">>>>

\* ------------------------------------------------- specification SpecLift

\* An element with a label, which stands for its text: the labels of a tree in
\* document order are its content.
Labelled(e, n) == [f \in DOMAIN e \cup {"label"} |-> IF f = "label" THEN n ELSE e[f]]

\* A text element with its text.
word(n) == Labelled(text, n)

\* The parents of a reference and their grandparents, as the parser makes
\* them: a paragraph and a header of the document, an item of a tight list,
\* and an emphasis in a paragraph; with what the siblings of each are.
Families ==
    { [grandparent |-> "markdown", parent |-> "paragraph", sibling |-> "paragraph"],
      [grandparent |-> "markdown", parent |-> "header", sibling |-> "paragraph"],
      [grandparent |-> "list", parent |-> "list_item", sibling |-> "list_item"],
      [grandparent |-> "paragraph", parent |-> "emphasis", sibling |-> "text"] }

\* An element of a tag with one word in it; a text is the word itself.
Holding(tag, n) ==
    IF tag = "text" THEN word(n)
    ELSE Element(tag, IF tag = "emphasis" THEN "span" ELSE "none", <<word(n)>>)

\* The children of a resolved doc_uri element when lift_trees comes to it:
\* none, the spans that lift_singles has put there, a reference among them,
\* or the blocks that a fragment of more lines parses to.
ResolvedKids ==
    { <<>>,
      <<word(4)>>,
      <<word(4), [graft(doc_uri("B"), Fragment("2", <<Holding("paragraph", 5)>>))
                    EXCEPT !.grafts = 0], word(6)>>,
      <<Holding("paragraph", 4)>>,
      <<Holding("paragraph", 4), Holding("paragraph", 5)>>,
      <<Holding("header", 4), Holding("paragraph", 5)>>,
      <<list(<<Holding("list_item", 4), Holding("list_item", 5)>>)>>,
      <<Labelled(block_code, 4)>> }

\* The words of the parent before and after the reference.
WordsBefore == { <<>>, <<word(2)>>, <<word(2), word(3)>> }
WordsAfter == { <<>>, <<word(7)>>, <<word(7), word(8)>> }

\* A call of the body of the loop of lift_trees: the grandparent, with the
\* parent at parentIndex and the doc_uri element at docIndex of the parent.
LiftInit ==
    /\ pc = "lift"
    /\ returned = <<>>
    /\ \E family \in Families, first \in BOOLEAN, last \in BOOLEAN,
          before \in WordsBefore, after \in WordsAfter, kids \in ResolvedKids :
        LET docElement == [doc_uri("A") EXCEPT !.resolved = "True", !.kids = kids]
            parent == Element(family.parent,
                              IF family.parent = "emphasis" THEN "span" ELSE "none",
                              before \o <<docElement>> \o after)
        IN  /\ args \in [grandparent : {Element(family.grandparent, "none",
                                (IF first THEN <<Holding(family.sibling, 1)>> ELSE <<>>)
                                \o <<parent>>
                                \o (IF last THEN <<Holding(family.sibling, 9)>> ELSE <<>>))},
                         parentIndex : {IF first THEN 1 ELSE 0},
                         docIndex : {Len(before)},
                         markers : BOOLEAN]
    /\ TreeIdle /\ FileIdle /\ CanIdle /\ CacheIdle

\* lift_trees: one pass of the loop.
LiftOne ==
    /\ pc = "lift"
    /\ returned' = <<lift_one(args.grandparent, args.parentIndex, args.docIndex, args.markers)>>
    /\ pc' = IF returned'[1].raised THEN "failed" ELSE "lifted"
    /\ UNCHANGED <<args, treeVars, fileVars, canVars, cacheVars>>

LiftNext == LiftOne

SpecLift == LiftInit /\ [][LiftNext]_vars

\* ------------------------------------------------------------ claim C25

\* The labels of an element and of what is below it, in document order.
RECURSIVE Labels(_)
RECURSIVE LabelsOf(_, _)
Labels(t) == (IF "label" \in DOMAIN t THEN <<t.label>> ELSE <<>>) \o LabelsOf(t.kids, 1)
LabelsOf(kids, i) == IF i > Len(kids) THEN <<>> ELSE Labels(kids[i]) \o LabelsOf(kids, i + 1)

\* The index of the first of the children from the i-th that the parent cannot
\* contain, or the one after the last.
RECURSIVE FirstUnacceptable(_, _, _)
FirstUnacceptable(parent, kids, i) ==
    IF i > Len(kids) \/ can_contain(parent, kids[i]) # "True" THEN i
    ELSE FirstUnacceptable(parent, kids, i + 1)

\* What the claim says of a splice: the children of the grandparent
\* afterwards, from the parent, the reference in it, and the siblings.
Spliced(grandparent, parentIndex, docIndex, markers) ==
    LET parent == grandparent.kids[parentIndex + 1]
        docElement == parent.kids[docIndex + 1]
        before == Take(parent.kids, docIndex)
        after == Drop(parent.kids, docIndex + 1)
        k == FirstUnacceptable(parent, docElement.kids, 1)
        accepted == Take(docElement.kids, k - 1)
        rejected == Drop(docElement.kids, k - 1)
        start == IF markers THEN <<docMarker(docElement)>> ELSE <<>>
        inside == IF rejected = <<>> THEN before \o start \o accepted \o start \o after
                  ELSE before \o (IF accepted = <<>> THEN <<>> ELSE start) \o accepted
        outside == IF rejected = <<>> THEN <<>>
                   ELSE (IF accepted = <<>> THEN start ELSE <<>>) \o rejected \o start
                        \o (IF after = <<>> THEN <<>> ELSE <<[parent EXCEPT !.kids = after]>>)
    IN  Take(grandparent.kids, parentIndex)
        \o (IF inside = <<>> /\ docIndex = 0 THEN <<>> ELSE <<[parent EXCEPT !.kids = inside]>>)
        \o outside
        \o Drop(grandparent.kids, parentIndex + 1)

\* C25: a splice keeps the content in document order, with the children of the
\* reference where the reference was; the children from the first that the
\* parent cannot contain on are in the grandparent right after the parent, and
\* then what followed the reference is in a new element of the parent's tag
\* after them.
C25_SpliceKeepsOrder ==
    pc = "lifted" =>
        /\ Labels(returned[1].element) = Labels(args.grandparent)
        /\ returned[1].element.kids
            = Spliced(args.grandparent, args.parentIndex, args.docIndex, args.markers)

\* Two paragraphs have gone up to the document from a reference in the middle
\* of a paragraph, and the two words that followed it are in a new paragraph
\* after them.
C25_Witness ==
    /\ pc = "lifted"
    /\ ~args.markers
    /\ Labels(returned[1].element) = <<2, 3, 4, 5, 7, 8>>
    /\ Len(returned[1].element.kids) = 4
    /\ returned[1].element.kids[4].tag = "paragraph"
    /\ Labels(returned[1].element.kids[4]) = <<7, 8>>

\* ------------------------------------------------ specification SpecSplit

\* An element with its text and its splitter attribute.
Spoken(e, chars, splitter) ==
    [tag |-> e.tag, layout |-> e.layout, resolved |-> e.resolved, uri |-> e.uri,
     contentLines |-> e.contentLines, grafts |-> e.grafts, kids |-> e.kids,
     text |-> chars, splitter |-> splitter]

\* The splitter attribute of an element, "none" where it is not set.
Splitter(e) == IF "splitter" \in DOMAIN e THEN e.splitter ELSE "none"

\* The alternatives of TreeRenderer.patternAtCommand after the "@", in the
\* order in which the expression tries them ("returns?" takes the s if it
\* can).
atCommands == <<<<"r", "e", "t", "u", "r", "n", "s">>, <<"r", "e", "t", "u", "r", "n">>, <<"p",
        "a", "r", "a", "m">>, <<"b", "r", "i", "e", "f">>, <<"d", "e", "s", "c", "r", "i", "p",
                "t", "i", "o", "n">>, <<"d", "e", "t", "a", "i", "l", "s">>, <<"v", "e", "r",
                        "s", "i", "o", "n">>>>

\* Where a match of patternAtCommand that starts at i ends, trying the
\* alternatives from the k-th; 0 for no match.
RECURSIVE match_end(_, _, _)
match_end(s, i, k) ==
    IF k > Len(atCommands) \/ i > Len(s) \/ s[i] # "@" THEN 0
    ELSE IF startswith(Drop(s, i), atCommands[k]) THEN i + Len(atCommands[k])
    ELSE match_end(s, i, k + 1)

\* regularExpression.search(text): the start of the first match from i on, 0
\* for none.
RECURSIVE search(_, _)
search(s, i) ==
    IF i > Len(s) THEN 0
    ELSE IF match_end(s, i, 1) > 0 THEN i
    ELSE search(s, i + 1)

\* mistree.split_elements(text, 'text', patternAtCommand, ['at_command']): a
\* text element for what is before the match unless it is empty, an
\* at_command element for the match, and the elements of the rest.
RECURSIVE split_elements(_)
split_elements(s) ==
    IF search(s, 1) = 0
    THEN (IF s = <<>> THEN <<>> ELSE <<Spoken(text, s, "none")>>)
    ELSE (IF search(s, 1) = 1 THEN <<>>
          ELSE <<Spoken(text, Take(s, search(s, 1) - 1), "none")>>)
         \o <<Spoken(Element("at_command", "span", <<>>),
                     SubSeq(s, search(s, 1), match_end(s, search(s, 1), 1)), "none")>>
         \o split_elements(Drop(s, match_end(s, search(s, 1), 1)))

\* TreeParser.__call__, after the parse: every at_command element becomes a
\* text element with splitter="True".
RECURSIVE flag_at_commands(_)
flag_at_commands(kids) ==
    IF kids = <<>> THEN <<>>
    ELSE <<IF Head(kids).tag = "at_command"
           THEN [Head(kids) EXCEPT !.tag = "text", !.splitter = "True"]
           ELSE [Head(kids) EXCEPT !.kids = flag_at_commands(@)]>>
         \o flag_at_commands(Tail(kids))

\* The texts that the inline lexer hands to TreeRenderer.text.
Runs == { <<"a">>, <<"@", "p", "a", "r", "a", "m", " ", "a">>, <<"a", " ", "@", "p", "a", "r",
        "a", "m", " ", "b">>, <<"a", "@", "r", "e", "t", "u", "r", "n", " ", "b", " ", "@",
                "b", "r", "i", "e", "f">>, <<"@", "r", "e", "t", "u", "r", "n", "s">>, <<"a",
                        " ", "@", "f", "o", "o">> }

\* The spans of a paragraph: a text, a text and an emphasis, an emphasis and
\* a text.
Spans ==
    { split_elements(one) : one \in Runs }
    \cup { split_elements(one) \o <<emphasis(split_elements(two))>> :
            one \in Runs, two \in Runs }
    \cup { <<emphasis(split_elements(one))>> \o split_elements(two) :
            one \in Runs, two \in Runs }

\* The blocks that hold them: a paragraph, a paragraph before another, a
\* header, an item of a tight list.
Blocks(spans) ==
    { <<paragraph(spans)>>,
      <<paragraph(spans), paragraph(split_elements(<<"a">>))>>,
      <<header(spans)>>,
      <<list(<<list_item(spans), list_item(split_elements(<<"a">>))>>)>> }

\* The comment element as resolve_splitters gets it; args keeps it as it was.
SplitInit ==
    /\ pc = "splitters"
    /\ \E spans \in Spans : \E kids \in Blocks(spans) :
        tree = Element("comment", "none",
                       <<Element("extract", "none", <<>>), markdown(flag_at_commands(kids))>>)
    /\ args = tree
    /\ returned = <<>>
    /\ library = <<>> /\ leaveMarkers = FALSE /\ docOuters = <<>> /\ count = 0
    /\ FileIdle /\ CanIdle /\ CacheIdle

\* The paths of the elements with splitter="True" that have a grandparent
\* below the comment element or are its grandchildren, in document order.
splitters(t) ==
    SelectSeq(iter(t, <<>>, 1),
              LAMBDA path : Len(path) >= 2 /\ Splitter(NodeAt(t, path)) = "True")

\* ET_grandparent(element, '*[@splitter="True"]') for the first of them: the
\* path of its grandparent, and the indexes from 1 of its parent and of
\* itself. The parent is the first child of the grandparent that has such a
\* child, and the element is the first such child of the parent, since no
\* other is before it in the document.
splitter_where(path) ==
    [grandparent |-> Take(path, Len(path) - 2),
     parentAt |-> path[Len(path) - 1],
     childAt |-> path[Len(path)]]

\* A mutant of the split that leaves the splitter in the parent.
SplitAfter(grandparent, parentIndex, splitterIndex) ==
    [grandparent EXCEPT !.kids =
        insert([@ EXCEPT ![parentIndex + 1].kids =
                    [Take(@, splitterIndex + 1) EXCEPT ![splitterIndex + 1].splitter = "False"]],
               parentIndex + 1,
               Element(grandparent.kids[parentIndex + 1].tag, "none",
                       Drop(grandparent.kids[parentIndex + 1].kids, splitterIndex + 1)))]

\* resolve_splitters: the body of its loop after ET_grandparent, on the
\* grandparent element, the indexes from 0. The new element has the tag of the
\* parent and its newlines attribute, and no other.
resolve_splitter(grandparent, parentIndex, splitterIndex) ==
    IF splitterIndex > 0
    THEN [grandparent EXCEPT !.kids =
            insert([@ EXCEPT ![parentIndex + 1].kids = Take(@, splitterIndex)],
                   parentIndex + 1,
                   Element(grandparent.kids[parentIndex + 1].tag, "none",
                           [Drop(grandparent.kids[parentIndex + 1].kids, splitterIndex)
                                EXCEPT ![1].splitter = "False"]))]
    ELSE [grandparent EXCEPT !.kids[parentIndex + 1].kids[1].splitter = "False"]

\* The element with the pass made for the splitter at a place.
resolved_at(t, where) ==
    SetAt(t, where.grandparent,
          resolve_splitter(NodeAt(t, where.grandparent), where.parentAt - 1, where.childAt - 1))

\* resolve_splitters: one pass of its loop, with a grandparent found.
ResolveSplitter ==
    /\ pc = "splitters"
    /\ splitters(tree) # <<>>
    /\ tree' = resolved_at(tree, splitter_where(Head(splitters(tree))))
    /\ pc' = "splitters"
    /\ UNCHANGED <<library, leaveMarkers, docOuters, count, fileVars, canVars, cacheVars, callVars>>

\* resolve_splitters: no grandparent is found, and the element is yielded.
SplittersDone ==
    /\ pc = "splitters"
    /\ splitters(tree) = <<>>
    /\ pc' = "split"
    /\ UNCHANGED <<treeVars, fileVars, canVars, cacheVars, callVars>>

SplitNext == ResolveSplitter \/ SplittersDone

SpecSplit == SplitInit /\ [][SplitNext]_vars

\* The generator runs on as long as it is asked for more.
FairSpecSplit == SpecSplit /\ WF_vars(SplitNext)

\* ------------------------------------------------------------ claim C26

\* The texts of an element and of what is below it, in document order.
RECURSIVE Texts(_)
RECURSIVE TextsOf(_, _)
Texts(t) == (IF "text" \in DOMAIN t THEN <<t.text>> ELSE <<>>) \o TextsOf(t.kids, 1)
TextsOf(kids, i) == IF i > Len(kids) THEN <<>> ELSE Texts(kids[i]) \o TextsOf(kids, i + 1)

\* The paths of the elements that TreeParser has flagged, resolved or not.
TokenPaths(t) == SelectSeq(iter(t, <<>>, 1), LAMBDA path : Splitter(NodeAt(t, path)) # "none")

\* What the claim says of one pass: with the flagged element at index k > 0
\* of its parent, the parent keeps the children before k and a new element of
\* its tag right after it has the others; at index 0 no element is made.
SplitAsClaimed ==
    LET where == splitter_where(Head(splitters(tree)))
        before == NodeAt(tree, where.grandparent).kids
        after == NodeAt(tree', where.grandparent).kids
        parent == before[where.parentAt]
        k == where.childAt - 1
    IN  IF k > 0
        THEN /\ Len(after) = Len(before) + 1
             /\ after[where.parentAt].tag = parent.tag
             /\ after[where.parentAt + 1].tag = parent.tag
             /\ Texts(after[where.parentAt]) = TextsOf(Take(parent.kids, k), 1)
             /\ Len(after[where.parentAt].kids) = k
             /\ Texts(after[where.parentAt + 1]) = TextsOf(Drop(parent.kids, k), 1)
             /\ Len(after[where.parentAt + 1].kids) = Len(parent.kids) - k
        ELSE /\ Len(after) = Len(before)
             /\ Len(iter(tree', <<>>, 1)) = Len(iter(tree, <<>>, 1))

\* C26: resolve_splitters comes to its end; then no element has
\* splitter="True", every at-command element is the first child of its parent
\* and the texts are in the order in which they were; and every pass of the
\* loop splits the parent as the claim says, or not at all.
C26_SplittersResolved ==
    /\ <>(pc = "split")
    /\ [](pc = "split" =>
            /\ \A path \in Range(TokenPaths(tree)) :
                /\ Splitter(NodeAt(tree, path)) = "False"
                /\ path[Len(path)] = 1
            /\ Len(TokenPaths(tree)) = Len(TokenPaths(args))
            /\ Texts(tree) = Texts(args))
    /\ [][(pc = "splitters" /\ pc' = "splitters") => SplitAsClaimed]_vars

\* Two at-commands after the start of a paragraph have been resolved: the one
\* paragraph is three.
C26_Witness ==
    /\ pc = "split"
    /\ Len(TokenPaths(tree)) = 2
    /\ Len(tree.kids[2].kids) = 3
    /\ \A i \in 1..3 : tree.kids[2].kids[i].tag = "paragraph"

\* ------------------------------------------------------------ claim C28

\* The lookup of _get_content for a uri with no host and the fragment name:
\* the cache that it finds, if any.
CacheOnly(fragments_, name) == last_match(fragments_, Uri("doc", "", <<>>, name), <<"None">>)

\* The loads, in order, of files that hold a fragment of the name.
LoadsHolding(name) ==
    SelectSeq(loads, LAMBDA path : name \in Range(HeaderNames(docFiles[path])))

\* The fragment of the name as Cache.read yields it for the file at a path.
FragmentOf(path, name) ==
    SelectSeq(Cache_read(path, docFiles[path]), LAMBDA cache : cache.fragment = name)

\* C28: while no load has raised, the lookup with no host of a name finds the
\* fragment of that name of the first loaded of the files that hold one, and
\* nothing if none is loaded; and once it finds one, no later load changes
\* what it finds.
C28_EarliestLoadedWins ==
    /\ [](pc # "failed" =>
            \A name \in {<<"A">>, <<"B">>} :
                CacheOnly(cachedFragments, name)
                    = IF LoadsHolding(name) = <<>> THEN <<>>
                      ELSE FragmentOf(Head(LoadsHolding(name)), name))
    /\ [][\A name \in {<<"A">>, <<"B">>} :
            (CacheOnly(cachedFragments, name) # <<>> /\ pc' # "failed")
                => CacheOnly(cachedFragments', name) = CacheOnly(cachedFragments, name)]_vars

\* The other file was loaded first and then the first file, which has a
\* fragment A of other content: the lookup of A finds that of the other file.
C28_Witness ==
    /\ pc = "load"
    /\ Len(loads) >= 2 /\ loads[1] = "q" /\ loads[2] = "p"
    /\ FragmentOf("p", <<"A">>) # <<>>
    /\ FragmentOf("p", <<"A">>)[1].contentLines # FragmentOf("q", <<"A">>)[1].contentLines
    /\ CacheOnly(cachedFragments, <<"A">>)[1].absPath = "q"

\* ------------------------------------------------ specification SpecChain

\* The length of the longest common start of two paths, from the i-th name.
RECURSIVE common(_, _, _)
common(p, q, i) ==
    IF i > Len(p) \/ i > Len(q) \/ p[i] # q[i] THEN i - 1 ELSE common(p, q, i + 1)

\* os.path.relpath(path) of an absolute path, in the working directory cwd:
\* a ".." for every name of cwd that is not shared, and the rest of the path.
relpath(path, cwd) ==
    [i \in 1..(Len(cwd) - common(path, cwd, 1)) |-> ".."] \o Drop(path, common(path, cwd, 1))

\* os.path.normpath of the names of an absolute path, from the i-th: a ".."
\* takes the name before it away, and at the root nothing.
RECURSIVE normpath(_, _, _)
normpath(names, i, done) ==
    IF i > Len(names) THEN done
    ELSE normpath(names, i + 1,
            IF names[i] = ".." THEN (IF done = <<>> THEN <<>> ELSE Take(done, Len(done) - 1))
            ELSE Append(done, names[i]))

\* os.path.abspath(path) of a relative path, in the working directory cwd.
abspath(path, cwd) == normpath(cwd \o path, 1, <<>>)

\* The documentation files: one beside the source file, one in the directory
\* above, one in the directory above that, each with a fragment A of its own.
Top == <<"n">>
ChainFiles ==
    [path \in {Here, Up, Top} |->
        << <<"#", "A", NL>>,
           <<(IF path = Here THEN "h" ELSE IF path = Up THEN "u" ELSE "t"), NL>> >>]

\* The uris of a chain: the first is in the comment, each other in the
\* fragment that the one before it names.
ChainUris ==
    { Uri("doc", netloc, path, <<"A">>) :
        netloc \in {".", ".."}, path \in {<<"n">>, <<"s", "n">>} }

MaxChain == 3

WorkingDirectories == { <<"d", "s">>, <<"d">>, <<>>, <<"e">> }

\* The doc_uri element of the comment has the source attribute of the comment,
\* which is the path of the source file as it was given: here relative to the
\* working directory. args.sources has the source attribute of the element
\* that is next to be resolved.
ChainInit ==
    /\ pc = "chain"
    /\ \E cwd \in WorkingDirectories, uris \in SeqsUpTo(ChainUris, MaxChain) :
        args = [cwd |-> cwd, uris |-> uris, source |-> relpath(SourcePath, cwd)]
    /\ returned = <<>>
    /\ docFiles = ChainFiles
    /\ cachedFragments = <<>>
    /\ cachedFiles = <<>>
    /\ loads = <<>>
    /\ FileIdle /\ TreeIdle /\ CanIdle

\* A mutant of the source that gives every element that of the comment.
SourceOfComment(cache, cwd) == relpath(SourcePath, cwd)

\* DocGetter.resolve: what it returns, which DocGetter.read sets as the source
\* attribute of every doc_uri element in the parse of the content.
source_of(cache, cwd) == relpath(cache.absPath, cwd)

\* DocGetter.read: the body of its loop for the next doc_uri element of the
\* chain. _get_content takes os.path.abspath of the source attribute.
ResolveNext ==
    /\ pc = "chain"
    /\ Len(returned) < Len(args.uris)
    /\ LET got == get_content(args.uris[Len(returned) + 1], abspath(args.source, args.cwd),
                              docFiles, cachedFragments, cachedFiles)
       IN  /\ cachedFragments' = got.cachedFragments
           /\ cachedFiles' = got.cachedFiles
           /\ pc' = IF got.raised = "none" THEN "chain" ELSE "failed"
           /\ returned' = IF got.raised = "none" THEN Append(returned, got.cached[1])
                          ELSE returned
           /\ args' = IF got.raised = "none"
                      THEN [args EXCEPT !.source = source_of(got.cached[1], args.cwd)]
                      ELSE args
    /\ UNCHANGED <<docFiles, loads, fileVars, treeVars, canVars>>

\* DocGetter.read: a pass of the loop finds no element to resolve.
ChainDone ==
    /\ pc = "chain"
    /\ Len(returned) = Len(args.uris)
    /\ pc' = "resolved"
    /\ UNCHANGED <<cacheVars, callVars, fileVars, treeVars, canVars>>

ChainNext == ResolveNext \/ ChainDone

SpecChain == ChainInit /\ [][ChainNext]_vars

\* ------------------------------------------------------------ claim C27

\* The file that a uri names from a file: "." is the directory of that file
\* and ".." the directory above it.
NamedFrom(uri, file_) ==
    (IF uri.netloc = "." THEN Take(file_, Len(file_) - 1) ELSE Take(file_, Len(file_) - 2))
        \o uri.path

\* C27: the first reference of a chain is resolved to the file that its uri
\* names from the source file, and every other to the file that its uri names
\* from the file of the fragment that it is in.
C27_ResolvedRelativeToFragmentFile ==
    \A k \in DOMAIN returned :
        returned[k].absPath
            = NamedFrom(args.uris[k], IF k = 1 THEN SourcePath ELSE returned[k - 1].absPath)

\* A chain of three: from the source file to the file beside it, from there
\* to the file above, and from there by the same uri to the file above that.
C27_Witness ==
    /\ pc = "resolved"
    /\ args.cwd = <<"e">>
    /\ Len(returned) = 3
    /\ returned[1].absPath = Here
    /\ returned[2].absPath = Up
    /\ args.uris[3] = args.uris[2]
    /\ returned[3].absPath = Top

\* ------------------------------------------- specification SpecExtract
\*
\* A run of the Doctor in extraction mode over some source files, and then a
\* run in injection mode over the files that the first run has written. The
\* companions are in docFiles, the source files as rewritten in `returned`,
\* and what the references of each file have resolved to in `loads`.

Digits == <<"0", "1", "2", "3", "4", "5", "6", "7", "8", "9">>

\* The decimal digits of a number, as an f-string formats it.
RECURSIVE str(_)
str(n) == IF n < 10 THEN <<Digits[n + 1]>> ELSE str(n \div 10) \o <<Digits[(n % 10) + 1]>>

\* `fragment = f"line-{startLine}-{finishLine}"` of Doctor.add_fragment, with
\* the lineFirst of the comment and the lineLast that _shuffle_comment sets,
\* which is the number of the last of its lines.
fragment_name(comment) ==
    <<"l", "i", "n", "e", "-">> \o str(comment.lineFirst) \o <<"-">>
        \o str(comment.lines[Len(comment.lines)].number)

\* What Doctor.add_fragment appends to the companion.
fragment_text(fragment, texts) == <<"#", " ">> \o fragment \o <<NL>> \o texts \o <<NL>>

\* `commentElement.find(".//*[@part='...']")`: the first line of that part.
part_of(comment, part) ==
    LET found == SelectSeq(comment.lines, LAMBDA line : line.part = part)
    IN  IF found = <<>>
        THEN [indent |-> <<>>, symbol |-> <<>>, margin |-> <<>>, eol |-> <<>>]
        ELSE found[1]

\* CommentTree._replacement_components, joined as write_replacement writes
\* them.
replacement(comment, path, fragment) ==
    part_of(comment, "start").indent \o part_of(comment, "start").symbol
        \o part_of(comment, "start").margin
        \o <<"[", "d", "o", "c", ":", "/", "/">> \o path \o <<"#">> \o fragment \o <<"]">>
        \o part_of(comment, "start").eol
        \o part_of(comment, "finish").indent \o part_of(comment, "finish").symbol

\* What Doctor._create_extract_path writes at the top of a companion: a
\* title, the time and the report, none of which starts with a "#".
ExtractHeader ==
    <<"A", "u", "t", "o", "m", "a", "t", "i", "c", " ", "e", "x", "t", "r", "a", "c", "t", "i",
            "o", "n">> \o <<NL>> \o <<"{">> \o <<NL>> \o <<"}">> \o <<NL>> \o <<NL>>

\* `".".join((os.path.splitext(report.path)[0], "md"))`
extract_path(path) ==
    LET name == path[Len(path)]
        dots == {i \in DOMAIN name : name[i] = "."}
        stem == IF dots = {} THEN Len(name)
                ELSE (CHOOSE i \in dots : \A j \in dots : j <= i) - 1
    IN  Append(dirname(path), Take(name, stem) \o <<".", "m", "d">>)

\* What Doctor._create_extract_path returns without an extractDir: the path
\* of the companion from the directory of the source file, which is the same
\* directory.
doc_path(path) == <<".", "/">> \o extract_path(path)[Len(path)]

\* The loop of Processing.comments_to_extract from the i-th element: what it
\* writes to the source file and what add_fragment appends to the companion.
RECURSIVE extract_from(_, _, _, _, _, _)
extract_from(iterator, i, docPath, firstDoc, wrote, doc) ==
    IF i > Len(iterator) THEN [wrote |-> wrote, doc |-> doc]
    ELSE IF IsComment(iterator[i])
    THEN extract_from(iterator, i + 1, docPath, FALSE,
            wrote \o replacement(iterator[i], IF firstDoc THEN docPath ELSE <<>>,
                                 fragment_name(iterator[i])),
            doc \o fragment_text(fragment_name(iterator[i]),
                                 extracted(shuffle_comment(iterator[i]).lines)))
    ELSE extract_from(iterator, i + 1, docPath, firstDoc,
                             wrote \o iterator[i].text, doc)

\* Doctor._overwrite_one in extraction mode on the lines of a source file.
extract_one(path, lines) ==
    extract_from(
        read_comments(lines, 0, NoElem, FALSE, [open |-> NoElem, out |-> <<>>]).out,
        1, doc_path(path), TRUE, <<>>, ExtractHeader)

\* What the lexer rule doc_uri takes from a word: the uri of a bare
\* reference, `doc://\S*`, or of one in brackets, `doc://[^\]\s]*` after the
\* "[" and before the "]", which can have an end of line before it.
bare_uri(chunk) == Take(chunk, LeadingFrom(chunk, Range(chunk) \ {NL}, 1))
bracket_uri(chunk) == Take(chunk, LeadingFrom(chunk, Range(chunk) \ {NL, "]"}, 1))
uri_of(chunk) ==
    IF startswith(chunk, DocPrefix) THEN <<bare_uri(chunk)>>
    ELSE IF /\ startswith(chunk, <<"[">> \o DocPrefix)
            /\ startswith(Drop(chunk, LeadingFrom(chunk, {NL},
                                               Len(bracket_uri(Tail(chunk))) + 2)),
                          <<"]">>)
    THEN <<bracket_uri(Tail(chunk))>>
    ELSE <<>>

\* The uris of the references in the comments of a file, in order.
RECURSIVE uris_of(_)
uris_of(found) ==
    IF found = <<>> THEN <<>>
    ELSE (IF IsComment(found[1])
          THEN LET chunks == split_chunks(extracted(shuffle_comment(found[1]).lines))
               IN  join([i \in DOMAIN chunks |-> uri_of(chunks[i])])
          ELSE <<>>) \o uris_of(Tail(found))

\* The getter of the job on the uris of a source file, one after the other,
\* until one raises: the caches that _get_content has returned, and what is
\* left in the getter. The fragments here refer to nothing, so that
\* DocGetter.read stops at the first of a chain.
RECURSIVE get_contents(_, _, _, _, _)
get_contents(uris, i, basePath, files, st) ==
    IF i > Len(uris) THEN st
    ELSE LET got == get_content(urlparse(uris[i]), basePath, files,
                                st.cachedFragments, st.cachedFiles)
         IN  IF got.raised # "none"
             THEN [st EXCEPT !.raised = got.raised,
                             !.cachedFragments = got.cachedFragments,
                             !.cachedFiles = got.cachedFiles]
             ELSE get_contents(uris, i + 1, basePath, files,
                     [raised |-> "none", uris |-> uris,
                      caches |-> Append(st.caches, got.cached[1]),
                      cachedFragments |-> got.cachedFragments,
                      cachedFiles |-> got.cachedFiles])

\* The references that Processing.path_to_comments finds in a source file,
\* read from what is on disk.
comment_uris(string) ==
    uris_of(read_comments(file_lines(splitlines(string)), 0, NoElem, FALSE,
                          [open |-> NoElem, out |-> <<>>]).out)

\* Doctor._overwrite_one in injection mode, as far as the getter goes: the
\* references of the file are resolved with self.injector, which is the same
\* for all the files of the job.
inject_one(path, uris, files, fragments_, loaded_) ==
    get_contents(uris, 1, path, files,
        [raised |-> "none", uris |-> uris, caches |-> <<>>,
         cachedFragments |-> fragments_, cachedFiles |-> loaded_])

MaxSources == 2

\* The source files of a job: comments on the first and on the third line,
\* two comments on one line, a comment of two lines, and one comment.
ExtractSources ==
    { <<<<"/", "*", "*", " ", "a", " ", "*", "/">>, <<"c", "o", "d", "e">>, <<"/", "*", "*",
            " ", "c", " ", "*", "/">>>>,
      <<<<"/", "*", "*", " ", "x", " ", "*", "/">>, <<"c", "o", "d", "e">>, <<"/", "*", "*",
              " ", "z", " ", "*", "/">>>>,
      <<<<"/", "*", "*", " ", "a", " ", "*", "/", " ", "/", "*", "*", " ", "b", " ", "*", "/">>>>,
      <<<<"c", "o", "d", "e">>, <<"/", "*", "*", " ", "p", " ", "*", "/">>, <<"/", "*", "*",
              " ", "q">>, <<" ", "*", "/">>>>,
      <<<<"/", "*", "*", " ", "a", " ", "*", "/">>>> }

\* The paths of the source files of a job, which are in one directory.
SourcePaths == << <<<<"d">>, <<"o", "n", "e", ".", "h">>>>, <<<<"d">>, <<"t", "w", "o", ".",
        "h">>>> >>

ExtractInit ==
    /\ pc = "extract"
    /\ \E sources \in SeqsUpTo(ExtractSources, MaxSources) :
        args = [k \in DOMAIN sources |->
                  [path |-> SourcePaths[k], lines |-> file_lines(sources[k])]]
    /\ returned = <<>>
    /\ docFiles = <<>>
    /\ cachedFragments = <<>>
    /\ cachedFiles = <<>>
    /\ loads = <<>>
    /\ FileIdle
    /\ TreeIdle
    /\ CanIdle

\* One pass of the loop of Doctor._overwrite_all in extraction mode: the
\* companion of the next source file is created and filled, and the source
\* file is written again with the references in place of its comments.
ExtractOne ==
    /\ pc = "extract"
    /\ Len(returned) < Len(args)
    /\ \E source \in {args[Len(returned) + 1]} :
       \E one \in {extract_one(source.path, source.lines)} :
        /\ returned' = Append(returned, one.wrote)
        /\ docFiles' = [path \in DOMAIN docFiles \cup {extract_path(source.path)} |->
                           IF path = extract_path(source.path)
                           THEN file_lines(splitlines(one.doc)) ELSE docFiles[path]]
    /\ UNCHANGED <<pc, args, cachedFragments, cachedFiles, loads>>
    /\ UNCHANGED <<fileVars, treeVars, canVars>>

\* The end of the job in extraction mode, after which the Doctor is run
\* again, in injection mode, on the same paths.
ExtractDone ==
    /\ pc = "extract"
    /\ Len(returned) = Len(args)
    /\ pc' = "inject"
    /\ UNCHANGED <<fileVars, treeVars, canVars, cacheVars, callVars>>

\* One pass of the loop of Doctor._overwrite_all in injection mode. An error
\* of the getter ends the job.
InjectOne ==
    /\ pc = "inject"
    /\ Len(loads) < Len(args)
    /\ \E one \in {inject_one(args[Len(loads) + 1].path,
                              comment_uris(returned[Len(loads) + 1]),
                              docFiles, cachedFragments, cachedFiles)} :
        /\ loads' = Append(loads, [raised |-> one.raised, uris |-> one.uris,
                                   caches |-> one.caches])
        /\ cachedFragments' = one.cachedFragments
        /\ cachedFiles' = one.cachedFiles
        /\ pc' = IF one.raised = "none" THEN "inject" ELSE "failed"
    /\ UNCHANGED <<docFiles, args, returned>>
    /\ UNCHANGED <<fileVars, treeVars, canVars>>

\* The end of the job in injection mode.
InjectDone ==
    /\ pc = "inject"
    /\ Len(loads) = Len(args)
    /\ pc' = "injected"
    /\ UNCHANGED <<fileVars, treeVars, canVars, cacheVars, callVars>>

ExtractNext == ExtractOne \/ ExtractDone \/ InjectOne \/ InjectDone

SpecExtract == ExtractInit /\ [][ExtractNext]_vars

\* ------------------------------------------------------------ claim C29

\* C29: after extraction and then injection, every reference without a path,
\* doc://#line-F-L, of a source file has resolved to a fragment of the
\* companion of that source file.
C29_CacheOnlyFromOwnCompanion ==
    \A k \in DOMAIN loads :
        \A j \in DOMAIN loads[k].caches :
            urlparse(loads[k].uris[j]).netloc = ""
                => loads[k].caches[j].absPath = extract_path(args[k].path)

\* ------------------------------------------------------------ claim C30

\* C30: the comment blocks of a file get fragment names that differ, two
\* blocks on one line too, so that no name is twice in a companion and the
\* load of a companion never finds a repeated fragment.
C30_DistinctFragmentNames ==
    /\ \A path \in DOMAIN docFiles : ~HasRepeat(HeaderNames(docFiles[path]))
    /\ \A k \in DOMAIN loads : loads[k].raised # "RuntimeError"

====
